---- MODULE Spec2Model ----
(***************************************************************************)
(* Model of the unit repository of steverhoton-unt-units-svc (dynamic,     *)
(* schema-validated variant): the DynamicUnit record model, the schema     *)
(* validation against commercialVehicleType.json, the pagination-token     *)
(* codec and the DynamoDB-backed repository operations.                    *)
(*                                                                         *)
(* Strings are sequences of atoms (an atom is a run of characters that     *)
(* holds no separator); "#" is an atom of its own, so fmt.Sprintf          *)
(* ("%s#%s", a, b) is a \o <<"#">> \o b and strings.SplitN(s, "#", 2)      *)
(* cuts at the first "#" atom.  A decimal numeral is the one-atom string   *)
(* <<ToString(n)>>.                                                        *)
(*                                                                         *)
(* The table is an external, persistent DynamoDB table: the repository     *)
(* keeps no state of its own, so the initial table of a run is any table   *)
(* of well-formed items (the attribute layout DynamicUnit.ToMap writes).   *)
(***************************************************************************)
EXTENDS Integers, Sequences, FiniteSets, TLC

(***************************************************************************)
(* Bounds of the model.                                                    *)
(***************************************************************************)
\* largest clock value (time.Now().Unix() is abstracted to 1..MaxTime)
MaxTime == 2
\* number of distinct UUIDs uuid.New() / the callers can produce
NumIds == 1
\* number of records of the account listed in the pagination runs
NumPageIds == 4
\* largest number of attributes of a key map in the codec runs
MaxKeyAttrs == 2
\* number of concurrent callers of loadSchema
NumLoaders == 3

(***************************************************************************)
(* Strings.                                                                *)
(***************************************************************************)
EmptyStr == << >>

CVT == <<"commercialVehicleType">>

OtherType == <<"otherType">>

Sep == <<"#">>

\* largest number that has a numeral in the model
MaxNum == MaxTime + NumIds + NumPageIds

\* the decimal numerals of the model's numbers
Numerals == [n \in 0..MaxNum |-> ToString(n)]

\* strconv.FormatInt(n, 10)
FormatInt(n) == <<Numerals[n]>>

IsNumeral(s) == Len(s) = 1 /\ \E n \in 0..MaxNum : s[1] = Numerals[n]

\* the number a decimal numeral stands for
ParseNum(s) == CHOOSE n \in 0..MaxNum : s[1] = Numerals[n]

UUID(n) == <<"uuid", Numerals[n]>>

UUIDs == {UUID(n) : n \in 1..NumIds}

IsUUID(s) == Len(s) = 2 /\ s[1] = "uuid" /\ IsNumeral(<<s[2]>>)

Accounts == {<<"acct-1">>, <<"acct-2">>}

\* fmt.Sprintf("%s#%s", a, b)
SprintfHash(a, b) == a \o Sep \o b

HashPositions(s) == {i \in 1..Len(s) : s[i] = "#"}

Min(S) == CHOOSE x \in S : \A y \in S : x <= y

\* strings.SplitN(s, "#", 2)
SplitN2(s) ==
    IF HashPositions(s) = {} THEN <<s>>
    ELSE LET i == Min(HashPositions(s))
         IN  <<SubSeq(s, 1, i - 1), SubSeq(s, i + 1, Len(s))>>

\* begins_with(s, prefix)
BeginsWith(s, prefix) ==
    Len(prefix) <= Len(s) /\ SubSeq(s, 1, Len(prefix)) = prefix

\* a fixed total order of the atoms, standing for the byte order of the table
AtomRank(a) ==
    IF a = "#" THEN 0
    ELSE IF IsNumeral(<<a>>) THEN 1 + ParseNum(<<a>>)
    ELSE IF a = "acct-1" THEN MaxNum + 2
    ELSE IF a = "acct-2" THEN MaxNum + 3
    ELSE IF a = "commercialVehicleType" THEN MaxNum + 4
    ELSE IF a = "otherType" THEN MaxNum + 5
    ELSE IF a = "uuid" THEN MaxNum + 6
    ELSE MaxNum + 7

RECURSIVE StrLess(_, _)
\* s sorts strictly before t
StrLess(s, t) ==
    IF Len(t) = 0 THEN FALSE
    ELSE IF Len(s) = 0 THEN TRUE
    ELSE IF AtomRank(Head(s)) # AtomRank(Head(t))
         THEN AtomRank(Head(s)) < AtomRank(Head(t))
    ELSE StrLess(Tail(s), Tail(t))

(***************************************************************************)
(* Go values (interface{}) and DynamoDB attribute values.                  *)
(***************************************************************************)
GoString(s) == [k |-> "string", s |-> s, n |-> 0]

GoInt64(n) == [k |-> "int64", s |-> EmptyStr, n |-> n]

GoFloat64(n) == [k |-> "float64", s |-> EmptyStr, n |-> n]

AVS(s) == [T |-> "S", V |-> s]

AVN(s) == [T |-> "N", V |-> s]

EmptyMap == << >>

\* the map m with the entries of d laid over it
Overlay(m, d) ==
    [a \in DOMAIN m \cup DOMAIN d |-> IF a \in DOMAIN d THEN d[a] ELSE m[a]]

Restrict(m, D) == [a \in DOMAIN m \cap D |-> m[a]]

\* attributevalue.Marshal of one Go value
MarshalValue(g) ==
    IF g.k = "string" THEN AVS(g.s) ELSE AVN(FormatInt(g.n))

\* attributevalue.MarshalMap
MarshalMap(m) == [a \in DOMAIN m |-> MarshalValue(m[a])]

\* attributevalue.Unmarshal into interface{}: a number comes back as float64
UnmarshalValue(av) ==
    IF av.T = "S" THEN GoString(av.V) ELSE GoFloat64(ParseNum(av.V))

\* attributevalue.UnmarshalMap into map[string]interface{}
UnmarshalMap(item) == [a \in DOMAIN item |-> UnmarshalValue(item[a])]

(***************************************************************************)
(* Schema validation (commercialVehicleType.json, gojsonschema).           *)
(***************************************************************************)
\* the schema names a supported unit type (loadSchema's only accepted name)
SupportedUnitTypes == {CVT}

\* loadSchema with the check of the unit type left out
LoadSchemaAny(unitType) == TRUE

\* loadSchema(unitType) returns a compiled schema and no error
LoadSchemaOK(unitType) == unitType \in SupportedUnitTypes

\* "required": ["id", "accountId"]
SchemaRequired == {"id", "accountId"}

\* the string-typed properties of the schema the model uses
SchemaStringProps == {"accountId", "suggestedVin", "make", "model"}

\* the integer-typed properties of the schema
SchemaIntegerProps == {"createdAt", "updatedAt", "deletedAt"}

\* "properties" of the schema; "additionalProperties": false admits no other
SchemaProperties == {"id"} \cup SchemaStringProps \cup SchemaIntegerProps

\* the value g conforms to the declaration of property a
PropertyOK(a, g) ==
    IF a = "id" THEN g.k = "string" /\ IsUUID(g.s)
    ELSE IF a \in SchemaStringProps THEN g.k = "string"
    ELSE IF a \in SchemaIntegerProps THEN g.k \in {"int64", "float64"}
    ELSE FALSE

\* schema.Validate(doc) reports result.Valid()
SchemaValid(doc) ==
    /\ SchemaRequired \subseteq DOMAIN doc
    /\ DOMAIN doc \subseteq SchemaProperties
    /\ \A a \in DOMAIN doc : PropertyOK(a, doc[a])

(***************************************************************************)
(* DynamicUnit.                                                            *)
(***************************************************************************)
NilUnit ==
    [isNil |-> TRUE, ID |-> EmptyStr, AccountID |-> EmptyStr,
     UnitType |-> EmptyStr, CreatedAt |-> 0, UpdatedAt |-> 0, DeletedAt |-> 0,
     Data |-> EmptyMap]

\* &DynamicUnit{UnitType: unitType, Data: make(map)} of NewDynamicUnit
NewDynamicUnit(unitType) == [NilUnit EXCEPT !.isNil = FALSE, !.UnitType = unitType]

\* SetTimestamps that assigns CreatedAt whatever it holds
SetTimestampsBoth(du, t) == [du EXCEPT !.CreatedAt = t, !.UpdatedAt = t]

\* SetTimestamps at clock value t
SetTimestamps(du, t) ==
    [du EXCEPT !.CreatedAt = IF du.CreatedAt = 0 THEN t ELSE du.CreatedAt,
               !.UpdatedAt = t]

IsDeleted(du) == du.DeletedAt > 0

\* MarkDeleted at clock value t
MarkDeleted(du, t) == [du EXCEPT !.DeletedAt = t]

GetSortKey(du) == SprintfHash(du.UnitType, du.ID)

\* the keys of Data that ToMap skips
ToMapSkipped == {"id", "accountId", "unitType", "createdAt", "updatedAt", "deletedAt"}

ToMap(du) ==
    Overlay(
        [a \in {"id", "pk", "sk", "unitType", "createdAt", "updatedAt", "deletedAt"} |->
            CASE a = "id" -> GoString(du.ID)
              [] a = "pk" -> GoString(du.AccountID)
              [] a = "sk" -> GoString(GetSortKey(du))
              [] a = "unitType" -> GoString(du.UnitType)
              [] a = "createdAt" -> GoInt64(du.CreatedAt)
              [] a = "updatedAt" -> GoInt64(du.UpdatedAt)
              [] a = "deletedAt" -> GoInt64(du.DeletedAt)],
        Restrict(du.Data, DOMAIN du.Data \ ToMapSkipped))

\* data[a].(string) succeeds
IsGoString(data, a) == a \in DOMAIN data /\ data[a].k = "string"

\* data[a].(int64) succeeds
IsGoInt64(data, a) == a \in DOMAIN data /\ data[a].k = "int64"

\* the keys of the stored map that FromMap keeps out of Data
FromMapSkipped == {"pk", "sk", "createdAt", "updatedAt", "deletedAt"}

\* the unit type FromMap leaves in du.UnitType
FromMapUnitType(du, data) ==
    IF IsGoString(data, "unitType") THEN data["unitType"].s
    ELSE IF IsGoString(data, "sk") /\ Len(SplitN2(data["sk"].s)) = 2
         THEN SplitN2(data["sk"].s)[1]
    ELSE du.UnitType

\* a FromMap that does not read the id of the stored map
FromMapIDUnread(du, data) ==
    [du EXCEPT
        !.AccountID = IF IsGoString(data, "pk") THEN data["pk"].s ELSE du.AccountID,
        !.UnitType = FromMapUnitType(du, data),
        !.DeletedAt = IF IsGoInt64(data, "deletedAt") THEN data["deletedAt"].n
                      ELSE du.DeletedAt,
        !.Data = Restrict(data, DOMAIN data \ FromMapSkipped)]

FromMap(du, data) ==
    [du EXCEPT
        !.ID = IF IsGoString(data, "id") THEN data["id"].s ELSE du.ID,
        !.AccountID = IF IsGoString(data, "pk") THEN data["pk"].s ELSE du.AccountID,
        !.UnitType = FromMapUnitType(du, data),
        !.CreatedAt = IF IsGoInt64(data, "createdAt") THEN data["createdAt"].n
                      ELSE du.CreatedAt,
        !.UpdatedAt = IF IsGoInt64(data, "updatedAt") THEN data["updatedAt"].n
                      ELSE du.UpdatedAt,
        !.DeletedAt = IF IsGoInt64(data, "deletedAt") THEN data["deletedAt"].n
                      ELSE du.DeletedAt,
        !.Data = Restrict(data, DOMAIN data \ FromMapSkipped)]

\* the document Validate hands to the schema
ValidationData(du) ==
    Overlay(du.Data,
        [a \in {"id", "accountId", "unitType", "createdAt", "updatedAt", "deletedAt"} |->
            CASE a = "id" -> GoString(du.ID)
              [] a = "accountId" -> GoString(du.AccountID)
              [] a = "unitType" -> GoString(du.UnitType)
              [] a = "createdAt" -> GoInt64(du.CreatedAt)
              [] a = "updatedAt" -> GoInt64(du.UpdatedAt)
              [] a = "deletedAt" -> GoInt64(du.DeletedAt)])

\* Validate with the verdict of the schema dropped: only the schema load counts
ValidateLoadOnly(du) == LoadSchemaOK(du.UnitType)

\* Validate returns nil
Validate(du) == LoadSchemaOK(du.UnitType) /\ SchemaValid(ValidationData(du))

\* the document ValidateAndSetData hands to the schema
SetDataDocument(du, data) ==
    Overlay(data,
        [a \in {x \in {"accountId"} : du.AccountID # EmptyStr}
                 \cup {x \in {"id"} : du.ID # EmptyStr} |->
            IF a = "accountId" THEN GoString(du.AccountID) ELSE GoString(du.ID)])

\* ValidateAndSetData returns nil
ValidateAndSetDataOK(du, data) ==
    LoadSchemaOK(du.UnitType) /\ SchemaValid(SetDataDocument(du, data))

(***************************************************************************)
(* The DynamoDB table: a set of items, at most one per (pk, sk).           *)
(***************************************************************************)
KeyOf(item) == <<item["pk"].V, item["sk"].V>>

\* the items stored under the key (pk, sk): none or one
ItemsAt(tbl, pk, sk) == {i \in tbl : KeyOf(i) = <<pk, sk>>}

\* client.PutItem without a failing condition: the item replaces its key's item
PutItem(tbl, item) == {i \in tbl : KeyOf(i) # KeyOf(item)} \cup {item}

\* "attribute_not_exists(pk) AND attribute_not_exists(sk)" on the key's item
CreateCondition(tbl, item) ==
    \A i \in ItemsAt(tbl, item["pk"].V, item["sk"].V) :
        "pk" \notin DOMAIN i /\ "sk" \notin DOMAIN i

\* "attribute_not_exists(deletedAt) OR deletedAt = :zero" on one item
NotDeletedFilter(i) ==
    \/ "deletedAt" \notin DOMAIN i
    \/ (i["deletedAt"].T = "N" /\ ParseNum(i["deletedAt"].V) = 0)

\* the condition of Update with the deletedAt clause left out
UpdateConditionExists(tbl, item) ==
    \E i \in ItemsAt(tbl, item["pk"].V, item["sk"].V) :
        "pk" \in DOMAIN i /\ "sk" \in DOMAIN i

\* "attribute_exists(pk) AND attribute_exists(sk) AND (attribute_not_exists
\* (deletedAt) OR deletedAt = :zero)" on the key's item
UpdateCondition(tbl, item) ==
    \E i \in ItemsAt(tbl, item["pk"].V, item["sk"].V) :
        "pk" \in DOMAIN i /\ "sk" \in DOMAIN i /\ NotDeletedFilter(i)

(***************************************************************************)
(* Error values of the repository (the text each error starts with).       *)
(***************************************************************************)
NoErr == "nil"

ErrNilUnit == "unit cannot be nil"

ErrAccountRequired == "accountID is required"

ErrUnitTypeRequired == "unitType is required"

ErrIDRequired == "ID is required"

ErrUnitIDRequired == "unitID is required"

ErrCheckExistence == "failed to check unit existence"

ErrSortKeyRequired == "sortKey is required"

ErrValidation == "validation failed"

ErrAlreadyExists == "unit already exists"

ErrNotExistsOrDeleted == "unit does not exist or is deleted"

ErrNotFound == "unit not found"

ErrSortKeyFormat == "invalid sort key format"

ErrCreateDynamicUnit == "failed to create dynamic unit"

ErrInputRequired == "input is required"

ErrDecodeToken == "failed to decode pagination token"

ErrListUnits == "failed to list units"

(***************************************************************************)
(* Repository reads.                                                       *)
(***************************************************************************)
\* the unit GetByKey rebuilds from a stored item
UnitFromItem(unitType, item) == FromMap(NewDynamicUnit(unitType), UnmarshalMap(item))

\* GetByKey(ctx, accountID, sortKey): the pair (unit, err)
GetByKey(tbl, accountID, sortKey) ==
    IF accountID = EmptyStr THEN [unit |-> NilUnit, err |-> ErrAccountRequired]
    ELSE IF sortKey = EmptyStr THEN [unit |-> NilUnit, err |-> ErrSortKeyRequired]
    ELSE IF ItemsAt(tbl, accountID, sortKey) = {} THEN [unit |-> NilUnit, err |-> NoErr]
    ELSE IF Len(SplitN2(sortKey)) # 2 THEN [unit |-> NilUnit, err |-> ErrSortKeyFormat]
    ELSE IF ~LoadSchemaOK(SplitN2(sortKey)[1])
         THEN [unit |-> NilUnit, err |-> ErrCreateDynamicUnit]
    ELSE LET item == CHOOSE i \in ItemsAt(tbl, accountID, sortKey) : TRUE
             unit == UnitFromItem(SplitN2(sortKey)[1], item)
         IN  IF IsDeleted(unit) THEN [unit |-> NilUnit, err |-> NoErr]
             ELSE [unit |-> unit, err |-> NoErr]

\* GetByKey reaches client.GetItem
GetByKeyReads(accountID, sortKey) == accountID # EmptyStr /\ sortKey # EmptyStr

\* GetByID reaches client.GetItem
GetByIDReads(accountID, unitType, unitID) ==
    /\ accountID # EmptyStr /\ unitType # EmptyStr /\ unitID # EmptyStr
    /\ GetByKeyReads(accountID, SprintfHash(unitType, unitID))

\* GetByID(ctx, accountID, unitType, unitID): the pair (unit, err)
GetByID(tbl, accountID, unitType, unitID) ==
    IF accountID = EmptyStr THEN [unit |-> NilUnit, err |-> ErrAccountRequired]
    ELSE IF unitType = EmptyStr THEN [unit |-> NilUnit, err |-> ErrUnitTypeRequired]
    ELSE IF unitID = EmptyStr THEN [unit |-> NilUnit, err |-> ErrUnitIDRequired]
    ELSE GetByKey(tbl, accountID, SprintfHash(unitType, unitID))

\* Exists(ctx, accountID, sortKey): the pair (found, err)
Exists(tbl, accountID, sortKey) ==
    IF accountID = EmptyStr THEN [found |-> FALSE, err |-> ErrAccountRequired]
    ELSE IF sortKey = EmptyStr THEN [found |-> FALSE, err |-> ErrSortKeyRequired]
    ELSE LET r == GetByKey(tbl, accountID, sortKey)
         IN  IF r.err # NoErr THEN [found |-> FALSE, err |-> ErrCheckExistence]
             ELSE [found |-> ~r.unit.isNil, err |-> NoErr]

(***************************************************************************)
(* Repository writes: the outcome of Create and Update on a table.         *)
(***************************************************************************)
\* the unit Create has stamped when it reaches validation (id: the UUID that
\* GenerateID draws when the caller gave none)
CreateStamped(unit, id, t) ==
    SetTimestamps([unit EXCEPT !.ID = IF unit.ID = EmptyStr THEN id ELSE unit.ID], t)

\* the item Create and Update hand to PutItem
ItemOf(unit) == MarshalMap(ToMap(unit))

\* Create(ctx, unit): the error, the unit as Create leaves it, the table after
CreateOutcome(tbl, unit, id, t) ==
    IF unit.isNil THEN [err |-> ErrNilUnit, unit |-> unit, tbl |-> tbl, put |-> FALSE]
    ELSE IF unit.AccountID = EmptyStr
         THEN [err |-> ErrAccountRequired, unit |-> unit, tbl |-> tbl, put |-> FALSE]
    ELSE IF unit.UnitType = EmptyStr
         THEN [err |-> ErrUnitTypeRequired, unit |-> unit, tbl |-> tbl, put |-> FALSE]
    ELSE LET u == CreateStamped(unit, id, t)
         IN  IF ~Validate(u)
             THEN [err |-> ErrValidation, unit |-> u, tbl |-> tbl, put |-> FALSE]
             ELSE IF ~CreateCondition(tbl, ItemOf(u))
             THEN [err |-> ErrAlreadyExists, unit |-> u, tbl |-> tbl, put |-> TRUE]
             ELSE [err |-> NoErr, unit |-> u, tbl |-> PutItem(tbl, ItemOf(u)),
                   put |-> TRUE]

\* Update(ctx, unit): the error, the unit as Update leaves it, the table after
UpdateOutcome(tbl, unit, t) ==
    IF unit.isNil THEN [err |-> ErrNilUnit, unit |-> unit, tbl |-> tbl, put |-> FALSE]
    ELSE IF unit.AccountID = EmptyStr
         THEN [err |-> ErrAccountRequired, unit |-> unit, tbl |-> tbl, put |-> FALSE]
    ELSE IF unit.UnitType = EmptyStr
         THEN [err |-> ErrUnitTypeRequired, unit |-> unit, tbl |-> tbl, put |-> FALSE]
    ELSE IF unit.ID = EmptyStr
         THEN [err |-> ErrIDRequired, unit |-> unit, tbl |-> tbl, put |-> FALSE]
    ELSE LET u == SetTimestamps(unit, t)
         IN  IF ~Validate(u)
             THEN [err |-> ErrValidation, unit |-> u, tbl |-> tbl, put |-> FALSE]
             ELSE IF ~UpdateCondition(tbl, ItemOf(u))
             THEN [err |-> ErrNotExistsOrDeleted, unit |-> u, tbl |-> tbl, put |-> TRUE]
             ELSE [err |-> NoErr, unit |-> u, tbl |-> PutItem(tbl, ItemOf(u)),
                   put |-> TRUE]

(***************************************************************************)
(* Pagination-token codec.  A key map is a pointer-like pair (isNil, m);   *)
(* a token is the base64 text of a JSON document, kept structured: the     *)
(* empty string, text that is not base64, base64 of text that is no JSON   *)
(* object, or base64 of a JSON object.                                     *)
(***************************************************************************)
NilKey == [isNil |-> TRUE, m |-> EmptyMap]

KeyMap(m) == [isNil |-> FALSE, m |-> m]

JSONString(s) == [jt |-> "string", s |-> s, n |-> 0]

JSONNumber(n) == [jt |-> "number", s |-> EmptyStr, n |-> n]

JSONTrue == [jt |-> "bool", s |-> <<"true">>, n |-> 0]

EmptyToken == [kind |-> "empty", obj |-> EmptyMap]

BadBase64Token == [kind |-> "badBase64", obj |-> EmptyMap]

BadJSONToken == [kind |-> "badJSON", obj |-> EmptyMap]

\* base64 of well-formed JSON that is an array, a string, a number or a boolean
NonObjectToken == [kind |-> "nonObject", obj |-> EmptyMap]

\* base64 of the JSON literal null
NullToken == [kind |-> "null", obj |-> EmptyMap]

ObjectToken(obj) == [kind |-> "object", obj |-> obj]

\* the non-empty tokens that are not base64 of a JSON object
MalformedTokens == {BadBase64Token, BadJSONToken, NonObjectToken, NullToken}

\* texts strconv.ParseFloat accepts that are no plain decimal numeral
FloatWords == {<<"1.5">>, <<"NaN">>}

\* strconv.ParseFloat(v, 64) returns no error
ParseFloatOK(v) == IsNumeral(v) \/ v \in FloatWords

\* fmt.Sprintf("%v", value) of an attribute value that is neither S nor N
SprintfV(av) == <<"&{", av.T>> \o av.V \o <<"}">>

\* the value encodePaginationToken stores in tokenData for one attribute
EncodeAttr(av) ==
    IF av.T = "S" THEN JSONString(av.V)
    ELSE IF av.T = "N" THEN JSONString(av.V)
    ELSE JSONString(SprintfV(av))

\* encodePaginationToken(lastKey)
encodePaginationToken(lastKey) ==
    IF lastKey.isNil THEN EmptyToken
    ELSE ObjectToken([a \in DOMAIN lastKey.m |-> EncodeAttr(lastKey.m[a])])

\* a decoder that re-types nothing: every string of the document becomes S
DecodeAttrAsString(k, v) == AVS(v.s)

\* the attribute decodePaginationToken builds for field k with JSON value v
DecodeAttr(k, v) ==
    IF v.jt = "string"
    THEN IF k = "pk" \/ k = "sk" THEN AVS(v.s)
         ELSE IF ParseFloatOK(v.s) THEN AVN(v.s)
         ELSE AVS(v.s)
    ELSE IF v.jt = "number" THEN AVN(FormatInt(v.n))
    ELSE AVS(v.s)

\* decodePaginationToken(token): the pair (key, err)
decodePaginationToken(token) ==
    IF token.kind = "empty" THEN [key |-> NilKey, err |-> FALSE]
    ELSE IF token.kind = "badBase64" THEN [key |-> NilKey, err |-> TRUE]
    ELSE IF token.kind = "badJSON" THEN [key |-> NilKey, err |-> TRUE]
    ELSE IF token.kind = "nonObject" THEN [key |-> NilKey, err |-> TRUE]
    ELSE IF token.kind = "null" THEN [key |-> KeyMap(EmptyMap), err |-> FALSE]
    ELSE [key |-> KeyMap([k \in DOMAIN token.obj |-> DecodeAttr(k, token.obj[k])]),
          err |-> FALSE]

(***************************************************************************)
(* client.Query on the table.                                              *)
(***************************************************************************)
RECURSIVE SortBySk(_)
\* the items of S in ascending sort-key order
SortBySk(S) ==
    IF S = {} THEN << >>
    ELSE LET first == CHOOSE i \in S :
                         \A j \in S \ {i} : StrLess(i["sk"].V, j["sk"].V)
         IN  <<first>> \o SortBySk(S \ {first})

\* the primary key of an item, as Query reports it in LastEvaluatedKey
PrimaryKey(i) == KeyMap([a \in {"pk", "sk"} |-> i[a]])

\* the key condition of List: "pk = :accountId [AND begins_with(sk, :unitType)]"
KeyCondition(i, accountID, hasPrefix, prefix) ==
    /\ i["pk"] = AVS(accountID)
    /\ hasPrefix => BeginsWith(i["sk"].V, prefix)

\* DynamoDB accepts esk as ExclusiveStartKey of the query
StartKeyOK(esk, accountID, hasPrefix, prefix) ==
    \/ esk.isNil
    \/ /\ DOMAIN esk.m = {"pk", "sk"}
       /\ esk.m["pk"] = AVS(accountID)
       /\ esk.m["sk"].T = "S"
       /\ hasPrefix => BeginsWith(esk.m["sk"].V, prefix)

\* the items the query still has to evaluate, in order
QueryRest(tbl, accountID, hasPrefix, prefix, esk) ==
    SortBySk({i \in tbl :
                /\ KeyCondition(i, accountID, hasPrefix, prefix)
                /\ esk.isNil \/ StrLess(esk.m["sk"].V, i["sk"].V)})

\* a query with no FilterExpression
QueryFilterNone(i) == TRUE

\* the FilterExpression of List on one evaluated item
QueryFilter(i) == NotDeletedFilter(i)

\* Query evaluates at most limit items, then filters: (Items, LastEvaluatedKey)
Query(tbl, accountID, hasPrefix, prefix, limit, esk) ==
    LET rest == QueryRest(tbl, accountID, hasPrefix, prefix, esk)
        n == IF Len(rest) < limit THEN Len(rest) ELSE limit
        evaluated == SubSeq(rest, 1, n)
    IN  [items |-> SelectSeq(evaluated, QueryFilter),
         lek |-> IF Len(rest) >= limit THEN PrimaryKey(rest[n]) ELSE NilKey]

(***************************************************************************)
(* List.                                                                   *)
(***************************************************************************)
DefaultLimit == 20

MaxLimit == 100

Absent == [present |-> FALSE, s |-> EmptyStr, n |-> 0]

OptStr(s) == [present |-> TRUE, s |-> s, n |-> 0]

OptInt(n) == [present |-> TRUE, s |-> EmptyStr, n |-> n]

NoToken == [present |-> FALSE, tok |-> EmptyToken]

SomeToken(tok) == [present |-> TRUE, tok |-> tok]

NilInput ==
    [isNil |-> TRUE, AccountID |-> EmptyStr, UnitType |-> Absent, Limit |-> Absent,
     NextToken |-> NoToken]

ListInput(accountID, unitType, limit, token) ==
    [isNil |-> FALSE, AccountID |-> accountID, UnitType |-> unitType,
     Limit |-> limit, NextToken |-> token]

NilSlice == [isNil |-> TRUE, elems |-> << >>]

NilResponse == [isNil |-> TRUE, Items |-> NilSlice, Count |-> 0, NextToken |-> NoToken]

\* a limit that clamps an over-large request to MaxLimit
ListLimitClamped(input) ==
    IF input.Limit.present /\ input.Limit.n > MaxLimit THEN MaxLimit
    ELSE IF input.Limit.present /\ input.Limit.n > 0 THEN input.Limit.n
    ELSE DefaultLimit

\* the limit List sends to the store
ListLimit(input) ==
    IF input.Limit.present /\ input.Limit.n > 0 /\ input.Limit.n <= MaxLimit
    THEN input.Limit.n ELSE DefaultLimit

ListHasPrefix(input) == input.UnitType.present /\ input.UnitType.s # EmptyStr

ListPrefix(input) == input.UnitType.s \o Sep

\* "var unitMaps []map[string]interface{}" followed by one append per item
UnitMaps(items) ==
    [isNil |-> Len(items) = 0, elems |-> [x \in 1..Len(items) |-> UnmarshalMap(items[x])]]

\* a response that never carries a NextToken
ResponseTokenNone(lek) == NoToken

\* the NextToken of the response for the query's LastEvaluatedKey
ResponseToken(lek) ==
    IF lek.isNil \/ encodePaginationToken(lek) = EmptyToken THEN NoToken
    ELSE SomeToken(encodePaginationToken(lek))

\* the ExclusiveStartKey List puts in the query
ListStartKey(input) ==
    IF input.NextToken.present /\ input.NextToken.tok # EmptyToken
    THEN decodePaginationToken(input.NextToken.tok).key ELSE NilKey

\* List(ctx, input): the error, the response and whether the store was queried
List(tbl, input) ==
    IF input.isNil THEN [err |-> ErrInputRequired, resp |-> NilResponse, queried |-> FALSE]
    ELSE IF input.AccountID = EmptyStr
         THEN [err |-> ErrAccountRequired, resp |-> NilResponse, queried |-> FALSE]
    ELSE IF /\ input.NextToken.present /\ input.NextToken.tok # EmptyToken
            /\ decodePaginationToken(input.NextToken.tok).err
         THEN [err |-> ErrDecodeToken, resp |-> NilResponse, queried |-> FALSE]
    ELSE IF ~StartKeyOK(ListStartKey(input), input.AccountID,
                        ListHasPrefix(input), ListPrefix(input))
         THEN [err |-> ErrListUnits, resp |-> NilResponse, queried |-> TRUE]
    ELSE LET q == Query(tbl, input.AccountID, ListHasPrefix(input), ListPrefix(input),
                        ListLimit(input), ListStartKey(input))
         IN  [err |-> NoErr,
              resp |-> [isNil |-> FALSE, Items |-> UnitMaps(q.items),
                        Count |-> Len(q.items), NextToken |-> ResponseToken(q.lek)],
              queried |-> TRUE]

(***************************************************************************)
(* State.                                                                  *)
(***************************************************************************)
VARIABLES
    store,        \* the DynamoDB table
    now,          \* the clock: time.Now().Unix()
    pc,           \* where each in-flight Delete call stands
    local,        \* the arguments and the unit of each in-flight Delete call
    last,         \* the response of the call that returned most recently
    deletedKeys,  \* the keys for which a Delete call has returned nil
    pg,           \* the pagination run: input, pages received, next token
    codec,        \* the codec run: key map, token, decoded key map
    sc,           \* the schema cache, its lock and the loadSchema calls in flight
    hd,           \* the handler run: the event and the response
    fn            \* the record-model run: the values a method was applied to

vars == <<store, now, pc, local, last, deletedKeys, pg, codec, sc, hd, fn>>

\* the Delete calls that can be in flight together
Procs == {"d1"}

(***************************************************************************)
(* Inputs of the calls.                                                    *)
(***************************************************************************)
Honda == <<"Honda">>

Ford == <<"Ford">>

Acct1 == <<"acct-1">>

Acct2 == <<"acct-2">>

\* a payload that conforms to the schema
StoredData == [a \in {"make"} |-> GoString(Honda)]

\* a payload delta that conforms to the schema
DeltaData == [a \in {"model"} |-> GoString(Ford)]

\* a payload with a field the schema does not declare
UndeclaredData == [a \in {"invalidField"} |-> GoString(Ford)]

\* a payload with a wrongly typed field
MistypedData == [a \in {"make"} |-> GoInt64(1)]

UnitOf(acct, ut, id, d) ==
    [isNil |-> FALSE, ID |-> id, AccountID |-> acct, UnitType |-> ut,
     CreatedAt |-> 0, UpdatedAt |-> 0, DeletedAt |-> 0, Data |-> d]

\* the units the Create and Update steps of a run are called with: no unit, a
\* unit with no account, with no or an unsupported unit type, with and without
\* an id, and with a conforming, an undeclared and a wrongly typed payload
UnitInputs ==
    {NilUnit,
     UnitOf(EmptyStr, CVT, UUID(1), StoredData),
     UnitOf(Acct1, EmptyStr, UUID(1), StoredData),
     UnitOf(Acct1, OtherType, UUID(1), StoredData),
     UnitOf(Acct1, CVT, EmptyStr, StoredData),
     UnitOf(Acct1, CVT, UUID(1), StoredData),
     UnitOf(Acct1, CVT, UUID(1), UndeclaredData),
     UnitOf(Acct1, CVT, UUID(1), MistypedData)}

\* the item of a record created at time 1 and, when del > 0, deleted at time del
StoredItem(acct, id, del) ==
    ItemOf([UnitOf(acct, CVT, id, StoredData) EXCEPT
                !.CreatedAt = 1, !.UpdatedAt = 1, !.DeletedAt = del])

\* the keys the initial table may hold: every id in the first account and the
\* first id in the second account
InitialKeys == {<<acct, id>> \in Accounts \X UUIDs : acct = Acct1 \/ id = UUID(1)}

InitialItems ==
    {StoredItem(k[1], k[2], del) : k \in InitialKeys, del \in {0, 1}}
        \ {StoredItem(Acct2, UUID(1), 1)}

UniqueKeys(tbl) == \A i, j \in tbl : KeyOf(i) = KeyOf(j) => i = j

\* the tables a run starts from: the second account holds one live record
InitialTables ==
    {tbl \in SUBSET InitialItems : UniqueKeys(tbl) /\ StoredItem(Acct2, UUID(1), 0) \in tbl}

(***************************************************************************)
(* Responses.                                                              *)
(***************************************************************************)
NoResp ==
    [op |-> "none", acct |-> EmptyStr, sk |-> EmptyStr, ut |-> EmptyStr,
     id |-> EmptyStr, in |-> NilUnit,
     unit |-> NilUnit, err |-> NoErr, put |-> FALSE, existed |-> FALSE,
     found |-> FALSE, linput |-> NilInput, lresp |-> NilResponse, queried |-> FALSE]

NoLocal == [acct |-> EmptyStr, ut |-> EmptyStr, id |-> EmptyStr, unit |-> NilUnit]

NoPg == [input |-> NilInput, pages |-> << >>, done |-> FALSE]

NoCodec == [phase |-> "off", key |-> NilKey, token |-> EmptyToken, back |-> NilKey,
            err |-> FALSE]

\* no loadSchema call was made
NoSc == [cache |-> EmptyMap]

\* no event was handled
NoHd == [op |-> "none"]

\* no record-model method was applied
NoFn == [op |-> "none"]

KeyExists(tbl, acct, sk) == ItemsAt(tbl, acct, sk) # {}

\* the key holds an item that is not soft-deleted
KeyLive(tbl, acct, sk) == \E i \in ItemsAt(tbl, acct, sk) : NotDeletedFilter(i)

(***************************************************************************)
(* Actions of the repository.                                              *)
(***************************************************************************)
Init ==
    /\ store \in InitialTables
    /\ now = 1
    /\ pc = [p \in Procs |-> "idle"]
    /\ local = [p \in Procs |-> NoLocal]
    /\ last = NoResp
    /\ deletedKeys = {}
    /\ pg = NoPg
    /\ codec = NoCodec
    /\ sc = NoSc
    /\ hd = NoHd
    /\ fn = NoFn

\* the clock advances
Tick ==
    /\ now < MaxTime
    /\ now' = now + 1
    /\ UNCHANGED <<store, pc, local, last, deletedKeys, pg, codec, sc, hd, fn>>

\* one call of Create
Create ==
    \E unit \in UnitInputs :
      \E id \in IF unit.ID = EmptyStr THEN UUIDs ELSE {unit.ID} :
        LET r == CreateOutcome(store, unit, id, now)
        IN  /\ store' = r.tbl
            /\ last' = [NoResp EXCEPT !.op = "Create", !.in = unit, !.unit = r.unit,
                            !.acct = r.unit.AccountID, !.sk = GetSortKey(r.unit),
                            !.err = r.err, !.put = r.put,
                            !.existed = KeyExists(store, r.unit.AccountID,
                                                  GetSortKey(r.unit))]
            /\ UNCHANGED <<now, pc, local, deletedKeys, pg, codec, sc, hd, fn>>

\* the units a caller rebuilt from the table (the read-merge-update flow): the
\* record GetByKey returned with a payload delta laid over its Data
RebuiltUnits ==
    {[GetByKey(store, KeyOf(i)[1], KeyOf(i)[2]).unit EXCEPT
          !.Data = Overlay(@, d)] :
        i \in {j \in store : ~GetByKey(store, KeyOf(j)[1], KeyOf(j)[2]).unit.isNil},
        d \in {DeltaData}}

\* one call of Update
Update ==
    \E unit \in UnitInputs \cup RebuiltUnits :
        LET r == UpdateOutcome(store, unit, now)
        IN  /\ store' = r.tbl
            /\ last' = [NoResp EXCEPT !.op = "Update", !.in = unit, !.unit = r.unit,
                            !.acct = r.unit.AccountID, !.sk = GetSortKey(r.unit),
                            !.err = r.err, !.put = r.put,
                            !.existed = KeyExists(store, r.unit.AccountID,
                                                  GetSortKey(r.unit))]
            /\ UNCHANGED <<now, pc, local, deletedKeys, pg, codec, sc, hd, fn>>

\* the argument checks of Delete with the check of unitID left out
DeleteArgsErrNoID(accountID, unitType, unitID) ==
    IF accountID = EmptyStr THEN ErrAccountRequired
    ELSE IF unitType = EmptyStr THEN ErrUnitTypeRequired
    ELSE NoErr

\* the argument checks of Delete: the error, or NoErr
DeleteArgsErr(accountID, unitType, unitID) ==
    IF accountID = EmptyStr THEN ErrAccountRequired
    ELSE IF unitType = EmptyStr THEN ErrUnitTypeRequired
    ELSE IF unitID = EmptyStr THEN ErrUnitIDRequired
    ELSE NoErr

DeleteResp(accountID, unitType, unitID, err, put) ==
    [NoResp EXCEPT !.op = "Delete", !.acct = accountID, !.ut = unitType,
                   !.id = unitID, !.sk = SprintfHash(unitType, unitID),
                   !.err = err, !.put = put,
                   !.queried = DeleteArgsErr(accountID, unitType, unitID) = NoErr]

\* the arguments the Delete steps of a run are called with
DeleteInputs ==
    {<<Acct1, CVT, id>> : id \in UUIDs}
        \cup {<<EmptyStr, CVT, UUID(1)>>, <<Acct1, EmptyStr, UUID(1)>>,
              <<Acct1, CVT, EmptyStr>>}

\* Delete up to PutItem: it returns an error, or it has read the record, marked
\* it deleted and refreshed its timestamps
DeleteGet(p) ==
    /\ pc[p] = "idle"
    /\ \E args \in DeleteInputs :
        LET accountID == args[1]
            unitType == args[2]
            unitID == args[3]
            argErr == DeleteArgsErr(accountID, unitType, unitID)
            got == GetByKey(store, accountID, SprintfHash(unitType, unitID))
        IN  IF argErr # NoErr
            THEN /\ last' = DeleteResp(accountID, unitType, unitID, argErr, FALSE)
                 /\ UNCHANGED <<pc, local>>
            ELSE IF got.err # NoErr
            THEN /\ last' = DeleteResp(accountID, unitType, unitID, ErrCheckExistence,
                                        FALSE)
                 /\ UNCHANGED <<pc, local>>
            ELSE IF got.unit.isNil
            THEN /\ last' = DeleteResp(accountID, unitType, unitID, ErrNotFound, FALSE)
                 /\ UNCHANGED <<pc, local>>
            ELSE /\ pc' = [pc EXCEPT ![p] = "put"]
                 /\ local' = [local EXCEPT ![p] =
                        [acct |-> accountID, ut |-> unitType, id |-> unitID,
                         unit |-> SetTimestamps(MarkDeleted(got.unit, now), now)]]
                 /\ UNCHANGED last
    /\ UNCHANGED <<store, now, deletedKeys, pg, codec, sc, hd, fn>>

\* Delete rewrites the item, with no condition, and returns nil
DeletePut(p) ==
    /\ pc[p] = "put"
    /\ store' = PutItem(store, ItemOf(local[p].unit))
    /\ last' = [DeleteResp(local[p].acct, local[p].ut, local[p].id, NoErr, TRUE)
                    EXCEPT !.unit = local[p].unit]
    /\ deletedKeys' = deletedKeys \cup {<<local[p].acct, SprintfHash(local[p].ut, local[p].id)>>}
    /\ pc' = [pc EXCEPT ![p] = "idle"]
    /\ local' = [local EXCEPT ![p] = NoLocal]
    /\ UNCHANGED <<now, pg, codec, sc, hd, fn>>

\* the keys the read steps of a run are called with
ReadInputs ==
    {<<Acct1, SprintfHash(CVT, id)>> : id \in UUIDs}
        \cup {<<EmptyStr, SprintfHash(CVT, UUID(1))>>, <<Acct1, EmptyStr>>}

\* one call of GetByKey
GetByKeyCall ==
    \E k \in ReadInputs :
        LET accountID == k[1]
            sortKey == k[2]
            r == GetByKey(store, accountID, sortKey)
        IN  /\ last' = [NoResp EXCEPT !.op = "GetByKey", !.acct = accountID,
                            !.sk = sortKey, !.unit = r.unit, !.err = r.err,
                            !.queried = GetByKeyReads(accountID, sortKey),
                            !.existed = KeyExists(store, accountID, sortKey)]
            /\ UNCHANGED <<store, now, pc, local, deletedKeys, pg, codec, sc, hd, fn>>

\* one call of GetByID
GetByIDCall ==
    \E args \in DeleteInputs :
        LET accountID == args[1]
            unitType == args[2]
            unitID == args[3]
            r == GetByID(store, accountID, unitType, unitID)
        IN  /\ last' = [NoResp EXCEPT !.op = "GetByID", !.acct = accountID,
                            !.ut = unitType, !.id = unitID,
                            !.sk = SprintfHash(unitType, unitID), !.unit = r.unit,
                            !.err = r.err,
                            !.queried = GetByIDReads(accountID, unitType, unitID),
                            !.existed = KeyExists(store, accountID,
                                                  SprintfHash(unitType, unitID))]
            /\ UNCHANGED <<store, now, pc, local, deletedKeys, pg, codec, sc, hd, fn>>

\* one call of Exists
ExistsCall ==
    \E k \in ReadInputs :
        LET accountID == k[1]
            sortKey == k[2]
            r == Exists(store, accountID, sortKey)
        IN  /\ last' = [NoResp EXCEPT !.op = "Exists", !.acct = accountID,
                            !.sk = sortKey, !.found = r.found, !.err = r.err,
                            !.queried = GetByKeyReads(accountID, sortKey),
                            !.existed = KeyExists(store, accountID, sortKey)]
            /\ UNCHANGED <<store, now, pc, local, deletedKeys, pg, codec, sc, hd, fn>>

\* inputs of List in the runs with concurrent writes
ListInputs ==
    {ListInput(Acct1, Absent, Absent, NoToken),
     ListInput(Acct1, OptStr(CVT), OptInt(1), NoToken)}
        \cup {ListInput(Acct1, Absent, Absent, SomeToken(tok)) : tok \in MalformedTokens}
        \cup {NilInput, ListInput(EmptyStr, Absent, Absent, NoToken)}

\* one call of List
ListCall ==
    \E input \in ListInputs :
        LET r == List(store, input)
        IN  /\ last' = [NoResp EXCEPT !.op = "List", !.acct = input.AccountID,
                            !.err = r.err, !.linput = input, !.lresp = r.resp,
                            !.queried = r.queried]
            /\ UNCHANGED <<store, now, pc, local, deletedKeys, pg, codec, sc, hd, fn>>

Next ==
    \/ Tick
    \/ Create
    \/ Update
    \/ \E p \in Procs : DeleteGet(p)
    \/ \E p \in Procs : DeletePut(p)
    \/ GetByKeyCall
    \/ GetByIDCall
    \/ ExistsCall
    \/ ListCall

Spec == Init /\ [][Next]_vars

(***************************************************************************)
(* Properties of Create, Update, Delete and the reads by key.              *)
(***************************************************************************)
\* the unit passes the argument checks that precede validation
PassesArgChecks(op, u) ==
    /\ ~u.isNil
    /\ u.AccountID # EmptyStr
    /\ u.UnitType # EmptyStr
    /\ op = "Update" => u.ID # EmptyStr

\* a caller's unit with an id, a supported unit type and a payload that conforms
\* to the schema (the document the handlers validate: payload, accountId, id)
ConformingInput(u) ==
    /\ ~u.isNil
    /\ u.AccountID # EmptyStr
    /\ u.ID # EmptyStr
    /\ ValidateAndSetDataOK(u, u.Data)

\* the step is a call of op that returned
Returned(op) == last'.op = op /\ last' # last

\* the record g carries the id, the account and the payload of the unit u
SameRecord(g, u) ==
    /\ ~g.isNil
    /\ g.ID = u.ID
    /\ g.AccountID = u.AccountID
    /\ \A a \in DOMAIN u.Data : a \in DOMAIN g.Data /\ g.Data[a] = u.Data[a]

\* Claim C1: for every accountId, supported unitType, id and schema-conforming
\* payload, when no item exists at the key (accountId, unitType#id), Create
\* succeeds and a following GetByKey with the derived key, and GetByID, return
\* a record with the same id, accountId and the supplied payload fields.
CreateThenGetByKey ==
    [][(Returned("Create") /\ ConformingInput(last'.in)
            /\ ~KeyExists(store, last'.acct, last'.sk))
        => /\ last'.err = NoErr
           /\ SameRecord(GetByKey(store', last'.acct, last'.sk).unit, last'.in)
           /\ SameRecord(GetByID(store', last'.in.AccountID, last'.in.UnitType,
                                 last'.in.ID).unit, last'.in)]_vars

\* Claim C2: a Create for a composite key that is already stored (by an
\* earlier or a concurrently winning Create) returns the already-exists error
\* and leaves the stored item as it is; at most one Create for a key succeeds.
CreateOnStoredKey ==
    [][(Returned("Create") /\ ConformingInput(last'.in)
            /\ KeyExists(store, last'.acct, last'.sk))
        => /\ last'.err = ErrAlreadyExists
           /\ store' = store]_vars

\* Claim C3: after a Delete returned nil for a key, in every later state
\* GetByKey and GetByID for that key return a nil record and no error, and
\* Exists returns false.
DeletedStaysInvisible ==
    \A k \in deletedKeys :
        /\ GetByKey(store, k[1], k[2]) = [unit |-> NilUnit, err |-> NoErr]
        /\ GetByID(store, k[1], SplitN2(k[2])[1], SplitN2(k[2])[2])
              = [unit |-> NilUnit, err |-> NoErr]
        /\ Exists(store, k[1], k[2]) = [found |-> FALSE, err |-> NoErr]

\* Claim C4: an Update for a key whose stored item is absent, or soft-deleted
\* at the moment of the conditional write, returns the not-found-or-deleted
\* error and writes nothing, whatever Create and Delete calls ran before it.
UpdateOfMissingOrDeleted ==
    [][(Returned("Update") /\ ConformingInput(last'.in)
            /\ ~KeyLive(store, last'.acct, last'.sk))
        => /\ last'.err = ErrNotExistsOrDeleted
           /\ store' = store]_vars

\* the document Validate builds for the unit fails schema validation
DocumentFails(u) ==
    ~LoadSchemaOK(u.UnitType) \/ ~SchemaValid(ValidationData(u))

\* Claim C5: whenever the merged document of a unit fails schema validation,
\* Create and Update return a validation error and issue no store call, so
\* the table is left as it was.
RejectedNeverStored ==
    [][(/\ last'.op \in {"Create", "Update"}
        /\ PassesArgChecks(last'.op, last'.in)
        /\ DocumentFails(last'.unit))
        => /\ last'.err = ErrValidation
           /\ ~last'.put
           /\ store' = store]_vars

\* a Create or an Update was called with an undeclared or a wrongly typed
\* field and was turned away at validation
RejectedHappened ==
    /\ last.op \in {"Create", "Update"}
    /\ PassesArgChecks(last.op, last.in)
    /\ last.in.Data \in {UndeclaredData, MistypedData}
    /\ DocumentFails(last.unit)
    /\ last.err = ErrValidation
    /\ ~last.put

\* Claim C6: the createdAt attribute stored under a key never changes once
\* written: no Update and no Delete alters it.
CreatedAtNeverChanges ==
    [][\A i \in store : \A j \in store' :
          KeyOf(i) = KeyOf(j) => j["createdAt"] = i["createdAt"]]_vars

(***************************************************************************)
(* Properties of List.                                                     *)
(***************************************************************************)
\* one returned unit map belongs to the account and is not soft-deleted
ListedItemOK(x, accountID) ==
    /\ "pk" \in DOMAIN x
    /\ x["pk"] = GoString(accountID)
    /\ "deletedAt" \in DOMAIN x => x["deletedAt"].n = 0

\* every unit map of the response belongs to the account and is not deleted
ListedItemsOK(resp, accountID) ==
    \A n \in 1..Len(resp.Items.elems) : ListedItemOK(resp.Items.elems[n], accountID)

\* the tokens a caller of List can hold for the table: none, and the token of
\* each stored key
TokensOf(tbl) ==
    {NoToken} \cup {SomeToken(encodePaginationToken(PrimaryKey(i))) : i \in tbl}

\* the inputs List is tried with in every state
ListInputsOf(tbl) ==
    {ListInput(acct, ut, lim, tok) :
        acct \in Accounts, ut \in {Absent, OptStr(CVT)},
        lim \in {Absent, OptInt(1), OptInt(2)}, tok \in TokensOf(tbl)}

\* Claim C7: in every reachable state of the table, every item List returns
\* has the requested accountId as partition key and deletedAt absent or 0.
ListReturnsLiveItemsOfAccount ==
    /\ (last.op = "List" /\ last.err = NoErr)
          => ListedItemsOK(last.lresp, last.linput.AccountID)
    /\ \A input \in ListInputsOf(store) :
          LET r == List(store, input)
          IN  r.err = NoErr => ListedItemsOK(r.resp, input.AccountID)

\* List answered for the first account while the table held a soft-deleted
\* record of that account and a record of the other account, and left out both
ListLeftOutRecords ==
    /\ last.op = "List" /\ last.err = NoErr /\ last.queried
    /\ last.linput.AccountID = Acct1
    /\ last.lresp = List(store, last.linput).resp
    /\ \E i \in store : i["pk"].V = Acct1 /\ ~NotDeletedFilter(i)
    /\ \E i \in store : i["pk"].V = Acct2
    /\ last.lresp.Count < Cardinality(store)

\* Claim C8: a successful List returns a non-null item collection whose length
\* is the count; with zero matching records it is an empty list, count 0.
ListItemsNeverNull ==
    (last.op = "List" /\ last.err = NoErr)
        => /\ ~last.lresp.Items.isNil
           /\ last.lresp.Count = Len(last.lresp.Items.elems)

(***************************************************************************)
(* Pagination runs: a caller lists one account of a table that nobody      *)
(* writes, feeding each returned next-token back in until none is returned.*)
(***************************************************************************)
\* the ids of the records of the listed account
PageIds == {UUID(n) : n \in 1..NumPageIds}

PagingItems ==
    {StoredItem(Acct1, id, del) : id \in PageIds, del \in {0, 1}}
        \cup {StoredItem(Acct2, UUID(1), 0)}

\* the tables of the pagination runs: any mix of live and soft-deleted records
\* in the listed account, one live record in the other account
PagingTables ==
    {tbl \in SUBSET PagingItems :
        UniqueKeys(tbl) /\ StoredItem(Acct2, UUID(1), 0) \in tbl}

\* the limits of the pagination runs
PageLimits == 1..(NumPageIds - 1)

\* the first request of a pagination run
PagingInputs ==
    {ListInput(Acct1, ut, OptInt(lim), NoToken) :
        ut \in {Absent, OptStr(CVT)}, lim \in PageLimits}

InitPaging ==
    /\ store \in PagingTables
    /\ now = 1
    /\ pc = [p \in Procs |-> "idle"]
    /\ local = [p \in Procs |-> NoLocal]
    /\ last = NoResp
    /\ deletedKeys = {}
    /\ pg \in {[NoPg EXCEPT !.input = input] : input \in PagingInputs}
    /\ codec = NoCodec
    /\ sc = NoSc
    /\ hd = NoHd
    /\ fn = NoFn

\* the pagination run after List answered r to its current request
PgAfter(r) ==
    [input |-> [pg.input EXCEPT !.NextToken = r.resp.NextToken],
     pages |-> Append(pg.pages, r.resp),
     done |-> ~r.resp.NextToken.present]

\* the caller sends its first request, with no token
FetchFirstPage ==
    /\ ~pg.done /\ pg.pages = << >>
    /\ LET r == List(store, pg.input)
       IN  /\ r.err = NoErr
           /\ pg' = PgAfter(r)
    /\ UNCHANGED <<store, now, pc, local, last, deletedKeys, codec, sc, hd, fn>>

\* the caller feeds the next-token of the last page back in
FetchNextPage ==
    /\ ~pg.done /\ pg.pages # << >>
    /\ LET r == List(store, pg.input)
       IN  /\ r.err = NoErr
           /\ pg' = PgAfter(r)
    /\ UNCHANGED <<store, now, pc, local, last, deletedKeys, codec, sc, hd, fn>>

NextPaging == FetchFirstPage \/ FetchNextPage

SpecPaging == InitPaging /\ [][NextPaging]_vars

\* the stored records the request matches: its account, its unit type, live
MatchingRecords(tbl, input) ==
    {i \in tbl : /\ KeyCondition(i, input.AccountID, ListHasPrefix(input),
                                 ListPrefix(input))
                 /\ NotDeletedFilter(i)}

RECURSIVE ItemsBefore(_, _)
\* the number of items of the pages before page p
ItemsBefore(pages, p) ==
    IF p <= 1 THEN 0 ELSE ItemsBefore(pages, p - 1) + pages[p - 1].Count

\* the ids of the items of one page
PageIdsOf(page) == {page.Items.elems[n]["id"] : n \in 1..Len(page.Items.elems)}

\* Claim C9: with no concurrent writes, listing an account that holds N
\* matching live records with limit L, feeding each next-token back in, gives
\* pages of exactly L items with a next-token while more than L matching
\* records remain, then a final page with the remaining items and no
\* next-token; the ids of the pages are pairwise distinct.
PagesFullUntilLast ==
    LET N == Cardinality(MatchingRecords(store, pg.input))
        L == pg.input.Limit.n
    IN  \A p \in 1..Len(pg.pages) :
          LET page == pg.pages[p]
              remaining == N - ItemsBefore(pg.pages, p)
          IN  /\ page.Count = Len(page.Items.elems)
              /\ Cardinality(PageIdsOf(page)) = page.Count
              /\ \A q \in 1..(p - 1) : PageIdsOf(pg.pages[q]) \cap PageIdsOf(page) = {}
              /\ IF remaining > L
                 THEN page.Count = L /\ page.NextToken.present
                 ELSE page.Count = remaining /\ ~page.NextToken.present

(***************************************************************************)
(* Codec runs: a last-key map is encoded to a token and the token decoded. *)
(***************************************************************************)
\* the attribute names of the key maps
KeyAttrNames == {"pk", "sk", "id", "createdAt"}

\* an attribute value that is neither S nor N
AVBool == [T |-> "BOOL", V |-> <<"true">>]

\* the attribute values of the key maps: strings that look like text and like
\* a number, numbers with integer and with fractional text, and another type
KeyAttrValues ==
    {AVS(Acct1), AVS(SprintfHash(CVT, UUID(1))), AVS(FormatInt(1)),
     AVN(FormatInt(0)), AVN(FormatInt(1)), AVN(<<"1.5">>), AVBool}

\* the last-key maps of the codec runs
CodecKeys ==
    {NilKey} \cup
    {KeyMap(m) : m \in UNION {[D -> KeyAttrValues] :
                       D \in {E \in SUBSET KeyAttrNames : Cardinality(E) <= MaxKeyAttrs}}}

InitCodec ==
    /\ store = {}
    /\ now = 1
    /\ pc = [p \in Procs |-> "idle"]
    /\ local = [p \in Procs |-> NoLocal]
    /\ last = NoResp
    /\ deletedKeys = {}
    /\ pg = NoPg
    /\ codec \in {[NoCodec EXCEPT !.phase = "key", !.key = k] : k \in CodecKeys}
    /\ sc = NoSc
    /\ hd = NoHd
    /\ fn = NoFn

\* encodePaginationToken is applied to the key map
EncodeStep ==
    /\ codec.phase = "key"
    /\ codec' = [codec EXCEPT !.phase = "encoded",
                              !.token = encodePaginationToken(codec.key)]
    /\ UNCHANGED <<store, now, pc, local, last, deletedKeys, pg, sc, hd, fn>>

\* decodePaginationToken is applied to the token
DecodeStep ==
    /\ codec.phase = "encoded"
    /\ codec' = [codec EXCEPT !.phase = "decoded",
                              !.back = decodePaginationToken(codec.token).key,
                              !.err = decodePaginationToken(codec.token).err]
    /\ UNCHANGED <<store, now, pc, local, last, deletedKeys, pg, sc, hd, fn>>

NextCodec == EncodeStep \/ DecodeStep

SpecCodec == InitCodec /\ [][NextCodec]_vars

\* the name is one of the declared key fields
IsKeyField(a) == a \in {"pk", "sk"}

\* the attribute's text is a decimal integer
IntegerText(av) == IsNumeral(av.V)

\* every value is a string under pk/sk, or a numeric-looking string or an
\* integer number under another name
StringKeysNumericRest(k) ==
    \A a \in DOMAIN k.m :
        IF IsKeyField(a) THEN k.m[a].T = "S"
        ELSE k.m[a].T \in {"S", "N"} /\ IntegerText(k.m[a])

\* every value is a string under pk/sk, or an integer number under another name
StringKeysNumberRest(k) ==
    \A a \in DOMAIN k.m :
        IF IsKeyField(a) THEN k.m[a].T = "S"
        ELSE k.m[a].T = "N" /\ IntegerText(k.m[a])

\* the decoded key map is the encoded one: names, types and values
RoundTrips == ~codec.err /\ codec.back = codec.key

\* Claim C10 as stated: decode(encode(k)) = k, with the same names, types and
\* values, for every key map whose values are strings under pk/sk or
\* numeric-looking strings or integers under any other name.
RoundTripOfNumericLooking ==
    (codec.phase = "decoded" /\ StringKeysNumericRest(codec.key)) => RoundTrips

\* Claim C10 as amended: decode(encode(k)) = k for every key map whose values
\* are string attributes under pk/sk or number attributes with integer text
\* under any other name.
RoundTripOfKeysAndNumbers ==
    (codec.phase = "decoded" /\ StringKeysNumberRest(codec.key)) => RoundTrips

\* a key map with a string under pk and a number under createdAt came back
RoundTripHappened ==
    /\ codec.phase = "decoded"
    /\ StringKeysNumberRest(codec.key)
    /\ DOMAIN codec.key.m = {"pk", "createdAt"}
    /\ codec.key.m["createdAt"].T = "N"
    /\ RoundTrips

(***************************************************************************)
(* Properties of malformed tokens and of argument checks.                  *)
(***************************************************************************)
\* Claim C11: decodePaginationToken returns an error and a nil key for every
\* non-empty token that is not valid base64 or whose decoded bytes are not a
\* JSON object, and List called with such a token returns that error and
\* issues no store query.
MalformedTokenRejected ==
    (last.op = "List" /\ last.linput.NextToken.present
        /\ last.linput.NextToken.tok \in MalformedTokens)
    => /\ decodePaginationToken(last.linput.NextToken.tok)
              = [key |-> NilKey, err |-> TRUE]
       /\ last.err = ErrDecodeToken
       /\ ~last.queried

\* the call that returned r had a nil record or input, or an empty required
\* key part
InvalidArgs(r) ==
    CASE r.op \in {"Create", "Update"} ->
            \/ r.in.isNil
            \/ r.in.AccountID = EmptyStr
            \/ r.in.UnitType = EmptyStr
            \/ r.op = "Update" /\ r.in.ID = EmptyStr
      [] r.op \in {"GetByKey", "Exists"} -> r.acct = EmptyStr \/ r.sk = EmptyStr
      [] r.op \in {"GetByID", "Delete"} ->
            r.acct = EmptyStr \/ r.ut = EmptyStr \/ r.id = EmptyStr
      [] r.op = "List" -> r.linput.isNil \/ r.linput.AccountID = EmptyStr
      [] OTHER -> FALSE

\* Claim C12: every repository operation called with a nil record or input,
\* or with an empty required key part, returns an error before any store
\* call is made and leaves the store unchanged.
ArgsRejectedBeforeStore ==
    [][InvalidArgs(last')
        => /\ last'.err # NoErr
           /\ ~last'.put
           /\ ~last'.queried
           /\ store' = store]_vars

\* a Delete with an empty unit id was turned away before it read the store
ArgsRejectedHappened ==
    /\ last.op = "Delete"
    /\ last.acct # EmptyStr /\ last.ut # EmptyStr /\ last.id = EmptyStr
    /\ last.err = ErrUnitIDRequired
    /\ ~last.queried /\ ~last.put

(***************************************************************************)
(* Record-model runs: the sort key of two (unitType, id) pairs is derived  *)
(* in both key orders and split again.                                     *)
(***************************************************************************)
\* sk := unitID + "#" + unitType of the id#unitType variant
FixedSortKey(unitID, unitType) == unitID \o Sep \o unitType

\* the non-empty texts a unit type or an id is drawn from
KeyParts ==
    {CVT, UUID(1), <<"a">>, <<"a", "#", "b">>, <<"b", "#", "a">>}

InitKeys ==
    /\ store = {}
    /\ now = 1
    /\ pc = [p \in Procs |-> "idle"]
    /\ local = [p \in Procs |-> NoLocal]
    /\ last = NoResp
    /\ deletedKeys = {}
    /\ pg = NoPg
    /\ codec = NoCodec
    /\ sc = NoSc
    /\ hd = NoHd
    /\ fn \in {[op |-> "keys", phase |-> "parts", p |-> p, q |-> q,
                dyn |-> << >>, fix |-> << >>] :
                  p \in KeyParts \X KeyParts, q \in KeyParts \X KeyParts}

\* the sort keys of both pairs (each pair is <<unitType, id>>) are derived
DeriveSortKeys ==
    /\ fn.op = "keys" /\ fn.phase = "parts"
    /\ fn' = [fn EXCEPT !.phase = "derived",
                        !.dyn = <<SprintfHash(fn.p[1], fn.p[2]),
                                  SprintfHash(fn.q[1], fn.q[2])>>,
                        !.fix = <<FixedSortKey(fn.p[2], fn.p[1]),
                                  FixedSortKey(fn.q[2], fn.q[1])>>]
    /\ UNCHANGED <<store, now, pc, local, last, deletedKeys, pg, codec, sc, hd>>

NextKeys == DeriveSortKeys

SpecKeys == InitKeys /\ [][NextKeys]_vars

\* Claim C13: within one account the sort key is injective in its parts: for
\* all non-empty (unitType, id) # (unitType', id') the sort keys differ, and
\* unitType and id are recovered from the sort key by splitting at the first
\* "#"; in both key orders (unitType#id and id#unitType).
SortKeyInjective ==
    (fn.op = "keys" /\ fn.phase = "derived")
    => /\ fn.p # fn.q => (fn.dyn[1] # fn.dyn[2] /\ fn.fix[1] # fn.fix[2])
       /\ SplitN2(fn.dyn[1]) = <<fn.p[1], fn.p[2]>>
       /\ SplitN2(fn.fix[1]) = <<fn.p[2], fn.p[1]>>

\* Claim C15: with no concurrent operation, Delete for a key whose item is
\* absent or already soft-deleted returns a not-found error and issues no
\* store write, so a second Delete leaves deletedAt and updatedAt unchanged.
DeleteOfDeadKeyWritesNothing ==
    [][/\ (pc["d1"] = "put" /\ pc'["d1"] = "idle")
            => KeyLive(store, local["d1"].acct,
                       SprintfHash(local["d1"].ut, local["d1"].id))
       /\ (pc["d1"] = "idle" /\ pc'["d1"] = "idle" /\ last' # last
             /\ last'.op = "Delete" /\ last'.queried
             /\ ~KeyLive(store, last'.acct, last'.sk))
            => (last'.err = ErrNotFound /\ store' = store)]_vars


(***************************************************************************)
(* The repository variant with typed records and sort key id#unitType.     *)
(* Its items are the marshalled struct; numbers come back as int64.        *)
(***************************************************************************)
\* attributevalue.MarshalMap(unit) with unit.SortKey = unit.GetSortKey()
FixedItemOf(u) ==
    [pk |-> u.AccountID, sk |-> FixedSortKey(u.ID, u.UnitType), id |-> u.ID,
     unitType |-> u.UnitType, data |-> u.Data, createdAt |-> u.CreatedAt,
     updatedAt |-> u.UpdatedAt, deletedAt |-> u.DeletedAt]

\* attributevalue.UnmarshalMap(result.Item, &unit)
FixedUnitOf(i) ==
    [isNil |-> FALSE, ID |-> i.id, AccountID |-> i.pk, UnitType |-> i.unitType,
     CreatedAt |-> i.createdAt, UpdatedAt |-> i.updatedAt,
     DeletedAt |-> i.deletedAt, Data |-> i.data]

\* GetByKey of this variant: nil for an absent or soft-deleted item
FixedGetByKey(tbl, accountID, unitID, unitType) ==
    IF accountID = EmptyStr THEN [unit |-> NilUnit, err |-> ErrAccountRequired]
    ELSE IF unitID = EmptyStr THEN [unit |-> NilUnit, err |-> ErrUnitIDRequired]
    ELSE IF unitType = EmptyStr THEN [unit |-> NilUnit, err |-> ErrUnitTypeRequired]
    ELSE LET found == {i \in tbl : i.pk = accountID
                                     /\ i.sk = FixedSortKey(unitID, unitType)}
         IN  IF found = {} THEN [unit |-> NilUnit, err |-> NoErr]
             ELSE LET u == FixedUnitOf(CHOOSE i \in found : TRUE)
                  IN  IF IsDeleted(u) THEN [unit |-> NilUnit, err |-> NoErr]
                      ELSE [unit |-> u, err |-> NoErr]

\* PutItem on a table of this variant
FixedPutItem(tbl, item) ==
    {i \in tbl : ~(i.pk = item.pk /\ i.sk = item.sk)} \cup {item}

\* the records the calls of a run are given
FixedUnitInputs ==
    {NilUnit}
        \cup {[NilUnit EXCEPT !.isNil = FALSE, !.AccountID = a, !.UnitType = ut,
                              !.ID = id, !.Data = d] :
                a \in {Acct1, EmptyStr}, ut \in {CVT, EmptyStr},
                id \in UUIDs \cup {EmptyStr}, d \in {Honda, Ford}}

InitFixed ==
    /\ store = {}
    /\ now = 1
    /\ pc = [p \in Procs |-> "idle"]
    /\ local = [p \in Procs |-> NoLocal]
    /\ last = NoResp
    /\ deletedKeys = {}
    /\ pg = NoPg
    /\ codec = NoCodec
    /\ sc = NoSc
    /\ hd = NoHd
    /\ fn = NoFn

\* one call of Create of this variant
FixedCreate ==
    \E unit \in FixedUnitInputs :
      \E id \in IF unit.ID = EmptyStr THEN UUIDs ELSE {unit.ID} :
        LET argErr == IF unit.isNil THEN ErrNilUnit
                      ELSE IF unit.AccountID = EmptyStr THEN ErrAccountRequired
                      ELSE IF unit.UnitType = EmptyStr THEN ErrUnitTypeRequired
                      ELSE NoErr
            u == SetTimestamps([unit EXCEPT !.ID = id], now)
            item == FixedItemOf(u)
            exists == \E i \in store : i.pk = item.pk /\ i.sk = item.sk
            err == IF argErr # NoErr THEN argErr
                   ELSE IF exists THEN ErrAlreadyExists ELSE NoErr
        IN  /\ store' = IF err = NoErr THEN FixedPutItem(store, item) ELSE store
            /\ last' = [NoResp EXCEPT !.op = "Create", !.in = unit,
                            !.unit = IF argErr = NoErr THEN u ELSE unit,
                            !.err = err, !.put = (err = NoErr),
                            !.queried = (argErr = NoErr)]
            /\ UNCHANGED <<now, pc, local, deletedKeys, pg, codec, sc, hd, fn>>

\* one call of Update of this variant
FixedUpdate ==
    \E unit \in FixedUnitInputs \cup {[FixedUnitOf(i) EXCEPT !.Data = d] :
                                        i \in store, d \in {Honda, Ford}} :
        LET argErr == IF unit.isNil THEN ErrNilUnit
                      ELSE IF unit.AccountID = EmptyStr THEN ErrAccountRequired
                      ELSE IF unit.ID = EmptyStr THEN "unit ID is required"
                      ELSE IF unit.UnitType = EmptyStr THEN ErrUnitTypeRequired
                      ELSE NoErr
            u == SetTimestamps(unit, now)
            item == FixedItemOf(u)
            live == \E i \in store : i.pk = item.pk /\ i.sk = item.sk
                                       /\ i.deletedAt = 0
            err == IF argErr # NoErr THEN argErr
                   ELSE IF ~live THEN ErrNotExistsOrDeleted ELSE NoErr
        IN  /\ store' = IF err = NoErr THEN FixedPutItem(store, item) ELSE store
            /\ last' = [NoResp EXCEPT !.op = "Update", !.in = unit,
                            !.unit = IF argErr = NoErr THEN u ELSE unit,
                            !.err = err, !.put = (err = NoErr),
                            !.queried = (argErr = NoErr)]
            /\ UNCHANGED <<now, pc, local, deletedKeys, pg, codec, sc, hd, fn>>

\* one call of Delete of this variant: MarkDeleted, then PutItem
FixedDelete ==
    \E accountID \in {Acct1, EmptyStr}, unitID \in UUIDs \cup {EmptyStr},
       unitType \in {CVT, EmptyStr} :
        LET got == FixedGetByKey(store, accountID, unitID, unitType)
            argErr == IF accountID = EmptyStr \/ unitID = EmptyStr
                         \/ unitType = EmptyStr
                      THEN got.err ELSE NoErr
            u == MarkDeleted(got.unit, now)
            err == IF argErr # NoErr THEN argErr
                   ELSE IF got.unit.isNil THEN ErrNotFound ELSE NoErr
        IN  /\ store' = IF err = NoErr THEN FixedPutItem(store, FixedItemOf(u))
                        ELSE store
            /\ last' = [NoResp EXCEPT !.op = "Delete", !.acct = accountID,
                            !.ut = unitType, !.id = unitID,
                            !.sk = FixedSortKey(unitID, unitType),
                            !.unit = IF err = NoErr THEN u ELSE NilUnit,
                            !.err = err, !.put = (err = NoErr),
                            !.queried = (argErr = NoErr)]
            /\ UNCHANGED <<now, pc, local, deletedKeys, pg, codec, sc, hd, fn>>

NextFixed == Tick \/ FixedCreate \/ FixedUpdate \/ FixedDelete

SpecFixed == InitFixed /\ [][NextFixed]_vars

\* Claim C16: every successful write rewrites updatedAt: the item stored by a
\* successful Create, Update or Delete carries updatedAt equal to the time of
\* that operation, in every repository variant; Delete stamps both deletedAt
\* and updatedAt.
WriteStampsUpdatedAt ==
    [][last'.put /\ last' # last
          => \A i \in store' :
                (i.pk = last'.unit.AccountID
                    /\ i.sk = FixedSortKey(last'.unit.ID, last'.unit.UnitType))
                => /\ i.updatedAt = now
                   /\ last'.op = "Delete" => i.deletedAt = now]_vars


(***************************************************************************)
(* The operation handlers on the dynamic repository.  A store call of the  *)
(* repository may fail (fail = TRUE): the client returns an error that is  *)
(* not a failed condition.                                                 *)
(***************************************************************************)
ErrStore == "store call failed"

\* the cause behind an error of the repository
KindOf(err) ==
    IF err \in {ErrValidation, ErrNilUnit, ErrAccountRequired, ErrUnitTypeRequired,
                ErrIDRequired, ErrUnitIDRequired, ErrSortKeyRequired,
                ErrInputRequired}
    THEN "validation"
    ELSE IF err = ErrDecodeToken THEN "decode"
    ELSE IF err = ErrAlreadyExists THEN "alreadyExists"
    ELSE IF err = ErrNotExistsOrDeleted THEN "notFoundOrDeleted"
    ELSE IF err = ErrNotFound THEN "notFound"
    ELSE "internal"

\* Delete(ctx, accountID, unitType, unitID) run to its end
DeleteOutcome(tbl, accountID, unitType, unitID, t, fail) ==
    LET argErr == DeleteArgsErr(accountID, unitType, unitID)
        got == GetByKey(tbl, accountID, SprintfHash(unitType, unitID))
        unit == SetTimestamps(MarkDeleted(got.unit, t), t)
    IN  IF argErr # NoErr THEN [err |-> argErr, tbl |-> tbl]
        ELSE IF fail \/ got.err # NoErr THEN [err |-> ErrCheckExistence, tbl |-> tbl]
        ELSE IF got.unit.isNil THEN [err |-> ErrNotFound, tbl |-> tbl]
        ELSE [err |-> NoErr, tbl |-> PutItem(tbl, ItemOf(unit))]

\* the event handled and the response: its input, whether a store call fails,
\* the response's Success and Error.Code, the cause of the failure and whether
\* a repository method was invoked
Handled(op, acct, ut, id, data, fail, success, code, kind, repo) ==
    [op |-> op, acct |-> acct, ut |-> ut, id |-> id, data |-> data, fail |-> fail,
     success |-> success, code |-> code, kind |-> kind, repo |-> repo]

\* appsync.NewErrorResponse("VALIDATION_ERROR", ...) before any repository call
Rejected(op, acct, ut, id, data, fail) ==
    Handled(op, acct, ut, id, data, fail, FALSE, "VALIDATION_ERROR", "validation",
            FALSE)

\* the inputs of the events of a run
HandlerAccounts == {Acct1, EmptyStr}

HandlerTypes == {CVT, OtherType, EmptyStr}

HandlerIds == UUIDs \cup {EmptyStr}

HandlerData == {StoredData, DeltaData, UndeclaredData}

InitHandlers ==
    /\ store \in InitialTables
    /\ now = 1
    /\ pc = [p \in Procs |-> "idle"]
    /\ local = [p \in Procs |-> NoLocal]
    /\ last = NoResp
    /\ deletedKeys = {}
    /\ pg = NoPg
    /\ codec = NoCodec
    /\ sc = NoSc
    /\ fn = NoFn
    /\ hd = [op |-> "none", acct |-> EmptyStr, ut |-> EmptyStr, id |-> EmptyStr,
             data |-> EmptyMap, fail |-> FALSE, success |-> FALSE,
             code |-> "", kind |-> "", repo |-> FALSE]

HandleCreate ==
    \E acct \in HandlerAccounts, ut \in HandlerTypes, data \in HandlerData,
       id \in UUIDs, fail \in BOOLEAN :
        LET unit == [NewDynamicUnit(ut) EXCEPT !.AccountID = acct, !.ID = id]
            set == [unit EXCEPT !.Data = SetDataDocument(unit, data)]
            r == CreateOutcome(store, set, id, now)
            err == IF r.put /\ fail THEN ErrStore ELSE r.err
        IN  /\ hd' =
                IF acct = EmptyStr \/ ut = EmptyStr \/ ut \notin SupportedUnitTypes
                THEN Rejected("Create", acct, ut, EmptyStr, data, fail)
                ELSE IF ~ValidateAndSetDataOK(unit, data)
                THEN Rejected("Create", acct, ut, EmptyStr, data, fail)
                ELSE IF err # NoErr
                THEN Handled("Create", acct, ut, EmptyStr, data, fail, FALSE,
                             "CREATE_FAILED", KindOf(err), TRUE)
                ELSE Handled("Create", acct, ut, EmptyStr, data, fail, TRUE, "", "",
                             TRUE)
            /\ store' = IF hd'.success THEN r.tbl ELSE store
            /\ UNCHANGED <<now, pc, local, last, deletedKeys, pg, codec, sc, fn>>

HandleRead ==
    \E acct \in HandlerAccounts, ut \in HandlerTypes, id \in HandlerIds,
       fail \in BOOLEAN :
        LET r == GetByID(store, acct, ut, id)
        IN  /\ hd' =
                IF id = EmptyStr \/ acct = EmptyStr \/ ut = EmptyStr
                THEN Rejected("Read", acct, ut, id, EmptyMap, fail)
                ELSE IF fail \/ r.err # NoErr
                THEN Handled("Read", acct, ut, id, EmptyMap, fail, FALSE,
                             "READ_FAILED", KindOf(IF fail THEN ErrStore ELSE r.err),
                             TRUE)
                ELSE IF r.unit.isNil
                THEN Handled("Read", acct, ut, id, EmptyMap, fail, FALSE,
                             "NOT_FOUND", "notFound", TRUE)
                ELSE Handled("Read", acct, ut, id, EmptyMap, fail, TRUE, "", "", TRUE)
            /\ UNCHANGED <<store, now, pc, local, last, deletedKeys, pg, codec, sc, fn>>

HandleUpdate ==
    \E acct \in HandlerAccounts, ut \in HandlerTypes, id \in HandlerIds,
       data \in HandlerData, fail \in {"no", "get", "put"} :
        LET got == GetByID(store, acct, ut, id)
            existingUnit == got.unit
            mergedData == Overlay(existingUnit.Data, data)
            set == [existingUnit EXCEPT
                        !.Data = SetDataDocument(existingUnit, mergedData)]
            r == UpdateOutcome(store, set, now)
            err == IF r.put /\ fail = "put" THEN ErrStore ELSE r.err
        IN  /\ hd' =
                IF id = EmptyStr \/ acct = EmptyStr \/ ut = EmptyStr
                      \/ ut \notin SupportedUnitTypes
                THEN Rejected("Update", acct, ut, id, data, fail # "no")
                ELSE IF fail = "get" \/ got.err # NoErr
                THEN Handled("Update", acct, ut, id, data, fail # "no", FALSE,
                             "UPDATE_FAILED",
                             KindOf(IF fail = "get" THEN ErrStore ELSE got.err), TRUE)
                ELSE IF existingUnit.isNil
                THEN Handled("Update", acct, ut, id, data, fail # "no", FALSE,
                             "NOT_FOUND", "notFound", TRUE)
                ELSE IF ~ValidateAndSetDataOK(existingUnit, mergedData)
                THEN Handled("Update", acct, ut, id, data, fail # "no", FALSE,
                             "VALIDATION_ERROR", "validation", TRUE)
                ELSE IF err # NoErr
                THEN Handled("Update", acct, ut, id, data, fail # "no", FALSE,
                             "UPDATE_FAILED", KindOf(err), TRUE)
                ELSE Handled("Update", acct, ut, id, data, fail # "no", TRUE, "", "",
                             TRUE)
            /\ store' = IF hd'.success THEN r.tbl ELSE store
            /\ UNCHANGED <<now, pc, local, last, deletedKeys, pg, codec, sc, fn>>

HandleDelete ==
    \E acct \in HandlerAccounts, ut \in HandlerTypes, id \in HandlerIds,
       fail \in BOOLEAN :
        LET r == DeleteOutcome(store, acct, ut, id, now, fail)
        IN  /\ hd' =
                IF id = EmptyStr \/ acct = EmptyStr \/ ut = EmptyStr
                THEN Rejected("Delete", acct, ut, id, EmptyMap, fail)
                ELSE IF r.err # NoErr
                THEN Handled("Delete", acct, ut, id, EmptyMap, fail, FALSE,
                             "DELETE_FAILED",
                             KindOf(IF fail THEN ErrStore ELSE r.err), TRUE)
                ELSE Handled("Delete", acct, ut, id, EmptyMap, fail, TRUE, "", "",
                             TRUE)
            /\ store' = IF hd'.success THEN r.tbl ELSE store
            /\ UNCHANGED <<now, pc, local, last, deletedKeys, pg, codec, sc, fn>>

HandleList ==
    \E acct \in HandlerAccounts, ut \in HandlerTypes,
       tok \in {NoToken, SomeToken(BadJSONToken)}, fail \in BOOLEAN :
        LET input == ListInput(acct, IF ut = EmptyStr THEN Absent ELSE OptStr(ut),
                               Absent, tok)
            r == List(store, input)
            err == IF r.queried /\ fail THEN ErrStore ELSE r.err
        IN  /\ hd' =
                IF acct = EmptyStr
                THEN Rejected("List", acct, ut, EmptyStr, EmptyMap, fail)
                ELSE IF err # NoErr
                THEN Handled("List", acct, ut, EmptyStr, EmptyMap, fail, FALSE,
                             "LIST_FAILED", KindOf(err), TRUE)
                ELSE Handled("List", acct, ut, EmptyStr, EmptyMap, fail, TRUE, "", "",
                             TRUE)
            /\ UNCHANGED <<store, now, pc, local, last, deletedKeys, pg, codec, sc, fn>>

NextHandlers ==
    Tick \/ HandleCreate \/ HandleRead \/ HandleUpdate \/ HandleDelete
        \/ HandleList

SpecHandlers == InitHandlers /\ [][NextHandlers]_vars

\* the four causes the claim names
NamedKinds == {"alreadyExists", "notFoundOrDeleted", "validation", "internal"}

\* Claim C17: failures are reported as distinguishable error kinds: a lost
\* not-exists guard as AlreadyExists, a failed update guard as
\* NotFoundOrDeleted, a schema or required-field failure as ValidationError,
\* any other store failure as InternalError; no two of these causes produce
\* the same error kind at the caller.
ErrorKindsDistinguishable ==
    [][(/\ hd.op # "none" /\ ~hd.success /\ ~hd'.success
        /\ hd.kind \in NamedKinds /\ hd'.kind \in NamedKinds)
          => ((hd.kind = hd'.kind) <=> (hd.code = hd'.code))]_vars


\* the attributes of an item that are not book-keeping fields
PayloadKeys(item) ==
    DOMAIN item \ {"id", "pk", "sk", "unitType", "createdAt", "updatedAt", "deletedAt"}

\* Claim C18: an update of an existing, non-deleted record with an attribute
\* delta stores the merge of the two: every key of the delta takes the
\* delta's value, every other key of the existing attributes keeps its stored
\* value; the merged bag is re-validated and the update succeeds when the
\* existing record and the delta are each schema-conforming.
UpdateStoresMerge ==
    [][(/\ hd'.op = "Update" /\ now' = now /\ ~hd'.fail
        /\ hd'.data \in {StoredData, DeltaData}
        /\ KeyLive(store, hd'.acct, SprintfHash(hd'.ut, hd'.id))
        /\ \A i \in ItemsAt(store, hd'.acct, SprintfHash(hd'.ut, hd'.id)) :
              SchemaValid(SetDataDocument(UnitOf(hd'.acct, hd'.ut, hd'.id, EmptyMap),
                                          Restrict(UnmarshalMap(i), PayloadKeys(i)))))
          => /\ hd'.success
             /\ \A i \in ItemsAt(store, hd'.acct, SprintfHash(hd'.ut, hd'.id)),
                   j \in ItemsAt(store', hd'.acct, SprintfHash(hd'.ut, hd'.id)) :
                  /\ \A a \in DOMAIN hd'.data :
                        a \in DOMAIN j /\ j[a] = MarshalValue(hd'.data[a])
                  /\ \A a \in PayloadKeys(i) \ DOMAIN hd'.data :
                        a \in DOMAIN j /\ j[a] = i[a]]_vars

\* Claim C19: for each of HandleCreate, HandleRead, HandleUpdate, HandleDelete
\* and HandleList, an event whose input lacks a required field (accountId; id
\* and unitType where the operation needs them) or names an unsupported
\* unitType yields Success=false with code VALIDATION_ERROR, and no
\* repository method is invoked.
HandlersRejectBadInput ==
    (/\ hd.op # "none"
     /\ \/ hd.acct = EmptyStr
        \/ hd.op \in {"Read", "Update", "Delete"} /\ hd.id = EmptyStr
        \/ hd.op \in {"Create", "Read", "Update", "Delete"} /\ hd.ut = EmptyStr
        \/ hd.ut # EmptyStr /\ hd.ut \notin SupportedUnitTypes)
    => (~hd.success /\ hd.code = "VALIDATION_ERROR" /\ ~hd.repo)


(***************************************************************************)
(* Timestamp runs: SetTimestamps applied twice to one record while the     *)
(* clock advances.                                                         *)
(***************************************************************************)
\* the records a run starts from: a new record, or one created and updated
\* at times the clock has reached, possibly soft-deleted since
StampedRecords(t) ==
    {[UnitOf(acct, CVT, UUID(1), d) EXCEPT
          !.CreatedAt = c, !.UpdatedAt = u, !.DeletedAt = del] :
        acct \in Accounts, d \in {StoredData, DeltaData}, c \in 0..t,
        u \in 0..t, del \in 0..t}

InitStamps ==
    /\ store = {}
    /\ now \in 1..MaxTime
    /\ pc = [p \in Procs |-> "idle"]
    /\ local = [p \in Procs |-> NoLocal]
    /\ last = NoResp
    /\ deletedKeys = {}
    /\ pg = NoPg
    /\ codec = NoCodec
    /\ sc = NoSc
    /\ hd = NoHd
    /\ fn \in {[op |-> "stamps", calls |-> 0, orig |-> r, first |-> r, rec |-> r,
                t1 |-> 0] :
                 r \in {x \in StampedRecords(now) :
                          /\ x.CreatedAt = 0 => x.UpdatedAt = 0
                          /\ x.CreatedAt <= x.UpdatedAt
                          /\ x.DeletedAt \in {0, x.UpdatedAt}}}

\* du.SetTimestamps()
CallSetTimestamps ==
    /\ fn.calls < 2
    /\ fn' = [fn EXCEPT !.calls = @ + 1,
                        !.rec = SetTimestamps(fn.rec, now),
                        !.first = IF fn.calls = 0 THEN SetTimestamps(fn.rec, now) ELSE @,
                        !.t1 = IF fn.calls = 0 THEN now ELSE @]
    /\ UNCHANGED <<store, now, pc, local, last, deletedKeys, pg, codec, sc, hd>>

NextStamps == Tick \/ CallSetTimestamps

SpecStamps == InitStamps /\ [][NextStamps]_vars

\* Claim C20: SetTimestamps on a record whose createdAt is 0 sets createdAt
\* and updatedAt to the same current time; on a record whose createdAt is
\* non-zero it leaves createdAt unchanged and sets only updatedAt.  With a
\* non-decreasing clock, two successive calls give an identical createdAt and
\* a second updatedAt greater than or equal to the first.
SetTimestampsContract ==
    /\ fn.calls >= 1 =>
          IF fn.orig.CreatedAt = 0
          THEN fn.first = [fn.orig EXCEPT !.CreatedAt = fn.t1, !.UpdatedAt = fn.t1]
          ELSE fn.first = [fn.orig EXCEPT !.UpdatedAt = fn.t1]
    /\ fn.calls = 2 =>
          /\ fn.rec.CreatedAt = fn.first.CreatedAt
          /\ fn.rec.UpdatedAt >= fn.first.UpdatedAt

\* a new record was stamped twice, the clock advancing in between
StampedTwice ==
    /\ fn.op = "stamps" /\ fn.calls = 2
    /\ fn.orig.CreatedAt = 0 /\ fn.first.CreatedAt = fn.t1
    /\ fn.rec.CreatedAt = fn.first.CreatedAt
    /\ fn.rec.UpdatedAt > fn.first.UpdatedAt


(***************************************************************************)
(* Identifier runs: GenerateID called directly, through Create and         *)
(* through HandleCreate.                                                   *)
(***************************************************************************)
\* the identifiers uuid.New() can return
FreshUUIDs == {UUID(n) : n \in 1..(NumIds + 1)}

\* du.GenerateID() when uuid.New() returns id
GenerateID(du, id) == [du EXCEPT !.ID = id]

\* "if unit.ID == "" { unit.GenerateID() }" of Create
CreateGenerateID(unit, id) == IF unit.ID = EmptyStr THEN GenerateID(unit, id) ELSE unit

InitIds ==
    /\ store = {}
    /\ now = 1
    /\ pc = [p \in Procs |-> "idle"]
    /\ local = [p \in Procs |-> NoLocal]
    /\ last = NoResp
    /\ deletedKeys = {}
    /\ pg = NoPg
    /\ codec = NoCodec
    /\ sc = NoSc
    /\ hd = NoHd
    /\ fn \in {[op |-> "ids", via |-> "none", before |-> r, after |-> r] :
                 r \in {UnitOf(acct, CVT, id, d) :
                          acct \in Accounts, id \in FreshUUIDs \cup {EmptyStr},
                          d \in {StoredData, DeltaData, UndeclaredData,
                                  MistypedData}}}

\* unit.GenerateID() called on the record as it stands
CallGenerateID ==
    \E id \in FreshUUIDs :
        /\ fn' = [fn EXCEPT !.via = "GenerateID", !.before = fn.after,
                            !.after = GenerateID(fn.after, id)]
        /\ UNCHANGED <<store, now, pc, local, last, deletedKeys, pg, codec, sc, hd>>

\* the identifier step of Create on the record as it stands
CreateCallsGenerateID ==
    \E id \in FreshUUIDs :
        /\ fn' = [fn EXCEPT !.via = "Create", !.before = fn.after,
                            !.after = CreateGenerateID(fn.after, id)]
        /\ UNCHANGED <<store, now, pc, local, last, deletedKeys, pg, codec, sc, hd>>

\* HandleCreate: a new unit of the input's account and type, then GenerateID
HandleCreateCallsGenerateID ==
    \E id \in FreshUUIDs, acct \in Accounts :
        LET unit == [NewDynamicUnit(CVT) EXCEPT !.AccountID = acct]
        IN  /\ fn' = [fn EXCEPT !.via = "HandleCreate", !.before = unit,
                                !.after = GenerateID(unit, id)]
            /\ UNCHANGED <<store, now, pc, local, last, deletedKeys, pg, codec, sc, hd>>

NextIds == CallGenerateID \/ CreateCallsGenerateID \/ HandleCreateCallsGenerateID

SpecIds == InitIds /\ [][NextIds]_vars

\* Claim C21: identity generation never overwrites an existing non-empty
\* identifier: GenerateID, called directly or through Create or HandleCreate,
\* leaves an id that is already non-empty unchanged and produces a new id only
\* when the id is empty.
GenerateIDKeepsNonEmpty ==
    (fn.op = "ids" /\ fn.via # "none")
    => /\ fn.before.ID # EmptyStr => fn.after.ID = fn.before.ID
       /\ fn.before.ID = EmptyStr => fn.after.ID \in FreshUUIDs


(***************************************************************************)
(* Schema cache runs: concurrent loadSchema calls on the package-level     *)
(* schemaCache map, guarded by schemaCacheMutex (a sync.RWMutex).          *)
(***************************************************************************)
Loaders == 1..NumLoaders

\* schemaCacheMutex.RLock() can return: no writer holds the lock
RLockFree(s) == s.writer = 0

\* schemaCacheMutex.Lock() that waits for the writer but not for the readers
LockFreeOfWriter(s) == s.writer = 0

\* schemaCacheMutex.Lock() can return: no reader and no writer holds the lock
LockFree(s) == s.readers = {} /\ s.writer = 0

InitSchema ==
    /\ store = {}
    /\ now = 1
    /\ pc = [p \in Procs |-> "idle"]
    /\ local = [p \in Procs |-> NoLocal]
    /\ last = NoResp
    /\ deletedKeys = {}
    /\ pg = NoPg
    /\ codec = NoCodec
    /\ hd = NoHd
    /\ fn = NoFn
    /\ sc \in {[cache |-> EmptyMap, readers |-> {}, writer |-> 0,
                at |-> [p \in Loaders |-> "call"], ut |-> ut,
                hit |-> [p \in Loaders |-> FALSE],
                res |-> [p \in Loaders |-> "none"]] :
                  ut \in [Loaders -> {CVT, OtherType, EmptyStr}]}

\* schemaCacheMutex.RLock()
SchemaRLock(p) ==
    /\ sc.at[p] = "call" /\ RLockFree(sc)
    /\ sc' = [sc EXCEPT !.readers = @ \cup {p}, !.at[p] = "rlocked"]
    /\ UNCHANGED <<store, now, pc, local, last, deletedKeys, pg, codec, hd, fn>>

\* schema, exists := schemaCache[unitType]
SchemaRead(p) ==
    /\ sc.at[p] = "rlocked"
    /\ sc' = [sc EXCEPT !.hit[p] = sc.ut[p] \in DOMAIN sc.cache, !.at[p] = "read"]
    /\ UNCHANGED <<store, now, pc, local, last, deletedKeys, pg, codec, hd, fn>>

\* schemaCacheMutex.RUnlock(); a hit returns the cached schema
SchemaRUnlock(p) ==
    /\ sc.at[p] = "read"
    /\ sc' = [sc EXCEPT !.readers = @ \ {p},
                        !.at[p] = IF sc.hit[p] THEN "done" ELSE "miss",
                        !.res[p] = IF sc.hit[p] THEN "schema" ELSE @]
    /\ UNCHANGED <<store, now, pc, local, last, deletedKeys, pg, codec, hd, fn>>

\* an unsupported unit type returns an error; a supported one is compiled
SchemaCompile(p) ==
    /\ sc.at[p] = "miss"
    /\ sc' = IF LoadSchemaOK(sc.ut[p])
             THEN [sc EXCEPT !.at[p] = "compiled"]
             ELSE [sc EXCEPT !.at[p] = "done", !.res[p] = "error"]
    /\ UNCHANGED <<store, now, pc, local, last, deletedKeys, pg, codec, hd, fn>>

\* schemaCacheMutex.Lock()
SchemaLock(p) ==
    /\ sc.at[p] = "compiled" /\ LockFree(sc)
    /\ sc' = [sc EXCEPT !.writer = p, !.at[p] = "locked"]
    /\ UNCHANGED <<store, now, pc, local, last, deletedKeys, pg, codec, hd, fn>>

\* schemaCache[unitType] = compiledSchema
SchemaWrite(p) ==
    /\ sc.at[p] = "locked"
    /\ sc' = [sc EXCEPT !.cache = Overlay(@, [a \in {sc.ut[p]} |-> p]),
                        !.at[p] = "written"]
    /\ UNCHANGED <<store, now, pc, local, last, deletedKeys, pg, codec, hd, fn>>

\* schemaCacheMutex.Unlock(); return compiledSchema, nil
SchemaUnlock(p) ==
    /\ sc.at[p] = "written"
    /\ sc' = [sc EXCEPT !.writer = 0, !.at[p] = "done", !.res[p] = "schema"]
    /\ UNCHANGED <<store, now, pc, local, last, deletedKeys, pg, codec, hd, fn>>

NextSchema ==
    \E p \in Loaders :
        \/ SchemaRLock(p)
        \/ SchemaRead(p)
        \/ SchemaRUnlock(p)
        \/ SchemaCompile(p)
        \/ SchemaLock(p)
        \/ SchemaWrite(p)
        \/ SchemaUnlock(p)

SpecSchema == InitSchema /\ [][NextSchema]_vars

\* the caller is between RLock and RUnlock: it reads the map
ReadsCache(p) == sc.at[p] \in {"rlocked", "read"}

\* the caller is between Lock and Unlock: it writes the map
WritesCache(p) == sc.at[p] \in {"locked", "written"}

\* Claim C14: under any interleaving of concurrent loadSchema calls for the
\* same uncached supported unitType, the cache map is never read or written
\* while another caller writes it, every caller returns a compiled schema,
\* and once all calls have returned the cache holds exactly one entry for it.
SchemaCacheSafe ==
    /\ \A p, q \in Loaders :
          (p # q /\ WritesCache(p)) => ~(ReadsCache(q) \/ WritesCache(q))
    /\ \A p \in Loaders :
          (sc.at[p] = "done" /\ sc.ut[p] = CVT) => sc.res[p] = "schema"
    /\ ((\A p \in Loaders : sc.at[p] = "done") /\ (\E p \in Loaders : sc.ut[p] = CVT))
          => DOMAIN sc.cache = {CVT}

\* every caller asked for the supported type, all have returned, and the last
\* write came from a caller other than the first to compile: a duplicate
\* compilation raced and the cache converged to one entry
SchemaRaceHappened ==
    /\ \A p \in Loaders : sc.ut[p] = CVT /\ sc.at[p] = "done" /\ sc.res[p] = "schema"
    /\ DOMAIN sc.cache = {CVT}
    /\ sc.cache[CVT] # 1

HasCompiled(p) ==
    \/ sc.at[p] \in {"compiled", "locked", "written"}
    \/ sc.at[p] = "done" /\ sc.res[p] = "schema" /\ ~sc.hit[p]

\* Claim C27: across any interleaving of concurrent loadSchema calls, the
\* schema document of a given unitType is loaded and compiled at most once
\* per process: the first compile happens under the exclusive writer lock and
\* every later caller gets the cached compiled form.
CompiledAtMostOnce ==
    Cardinality({p \in Loaders : HasCompiled(p)}) <= 1

DeleteChangesOnlyStamps ==
    [][(pc["d1"] = "put" /\ pc'["d1"] = "idle")
          => \A i \in ItemsAt(store, last'.acct, last'.sk),
                j \in ItemsAt(store', last'.acct, last'.sk) :
                \A a \in (DOMAIN i \cup DOMAIN j) \ {"deletedAt", "updatedAt"} :
                    a \in DOMAIN i /\ a \in DOMAIN j /\ i[a] = j[a]]_vars

\* the pages received hold every matching live record exactly once
ListedExactlyOnce ==
    LET matching == MatchingRecords(store, pg.input)
    IN  /\ ItemsBefore(pg.pages, Len(pg.pages) + 1) = Cardinality(matching)
        /\ UNION {PageIdsOf(pg.pages[p]) : p \in 1..Len(pg.pages)}
              = {UnmarshalMap(i)["id"] : i \in matching}

\* Claim C25: on a store with no concurrent writes, repeatedly calling List
\* for an account (with or without a unitType prefix, with any limit) and
\* passing each returned next-token to the next call eventually returns a
\* page with no next-token, and the concatenation of all pages contains every
\* non-deleted matching record of the account exactly once.
\* As a caller that holds a token calls again, the run ends when every call
\* succeeds and the number of pages is bounded: one page per record of the
\* account at most, and one more.
PagingTerminatesComplete ==
    /\ ~pg.done => List(store, pg.input).err = NoErr
    /\ Len(pg.pages) <= Cardinality({i \in store : i["pk"].V = pg.input.AccountID}) + 1
    /\ \A p \in 1..Len(pg.pages) :
          pg.pages[p].NextToken.present <=> (p < Len(pg.pages) \/ ~pg.done)
    /\ pg.done => ListedExactlyOnce

\* a run over several records ended after more than one page
PagingRunEnded ==
    /\ pg.done /\ Len(pg.pages) >= 2
    /\ Cardinality(MatchingRecords(store, pg.input)) >= 2
    /\ ~pg.pages[Len(pg.pages)].NextToken.present
    /\ ListedExactlyOnce

(***************************************************************************)
(* Limit runs: List called with every kind of requested limit on a table   *)
(* that nobody writes.                                                     *)
(***************************************************************************)
\* the requested limits: absent, negative, zero, small, and around MaxLimit
RequestedLimits == {Absent} \cup {OptInt(n) : n \in {-1, 0, 1, 2, 100, 101}}

LimitInputs ==
    {ListInput(Acct1, ut, lim, NoToken) :
        ut \in {Absent, OptStr(CVT)}, lim \in RequestedLimits}

InitLimit ==
    /\ store \in PagingTables
    /\ now = 1
    /\ pc = [p \in Procs |-> "idle"]
    /\ local = [p \in Procs |-> NoLocal]
    /\ last = NoResp
    /\ deletedKeys = {}
    /\ pg = NoPg
    /\ codec = NoCodec
    /\ sc = NoSc
    /\ hd = NoHd
    /\ fn = [op |-> "limit", called |-> FALSE]

\* one call of List: the request, the limit put in the query, the response
ListWithLimit ==
    \E input \in LimitInputs :
        /\ fn' = [op |-> "limit", called |-> TRUE, input |-> input,
                  sent |-> ListLimit(input), out |-> List(store, input)]
        /\ UNCHANGED <<store, now, pc, local, last, deletedKeys, pg, codec, sc, hd>>

NextLimit == ListWithLimit

SpecLimit == InitLimit /\ [][NextLimit]_vars

\* Claim C26: the limit List sends to the store is always between 1 and 100:
\* the requested limit when that is between 1 and 100 inclusive, and 20 when
\* the limit is absent, zero, negative or greater than 100; no page holds more
\* than 100 items (nor more than the limit sent).
LimitSentInRange ==
    (fn.op = "limit" /\ fn.called)
    => LET req == fn.input.Limit
           inRange == req.present /\ req.n >= 1 /\ req.n <= 100
       IN  /\ fn.sent >= 1 /\ fn.sent <= 100
           /\ inRange => fn.sent = req.n
           /\ ~inRange => fn.sent = 20
           /\ fn.out.err = NoErr
           /\ fn.out.resp.Count = Len(fn.out.resp.Items.elems)
           /\ fn.out.resp.Count <= fn.sent
           /\ fn.out.resp.Count <= 100

\* an over-large limit fell back to 20, and a small limit cut a page short
OverLargeFellBack ==
    /\ fn.op = "limit" /\ fn.called
    /\ fn.input.Limit.present /\ fn.input.Limit.n > 100
    /\ fn.sent = 20
    /\ Cardinality(MatchingRecords(store, fn.input)) >= 2

(***************************************************************************)
(* Prefix runs: List called with a unit type on a table that nobody writes *)
(* and whose records carry ids the caller of Create supplied.              *)
(***************************************************************************)
\* the ids of the records: Create keeps any non-empty id it is called with
SuppliedIds == {UUID(1), <<"a">>, <<"a", "#", "a">>}

PrefixItems ==
    {ItemOf([UnitOf(Acct1, CVT, id, StoredData) EXCEPT
                !.CreatedAt = 1, !.UpdatedAt = 1, !.DeletedAt = del]) :
        id \in SuppliedIds, del \in {0, 1}}
        \cup {StoredItem(Acct2, UUID(1), 0)}

PrefixTables == {tbl \in SUBSET PrefixItems : UniqueKeys(tbl)}

\* the unit types List is called with: List accepts any text
PrefixTypes == {CVT, OtherType, SprintfHash(CVT, <<"a">>)}

InitPrefix ==
    /\ store \in PrefixTables
    /\ now = 1
    /\ pc = [p \in Procs |-> "idle"]
    /\ local = [p \in Procs |-> NoLocal]
    /\ last = NoResp
    /\ deletedKeys = {}
    /\ pg = NoPg
    /\ codec = NoCodec
    /\ sc = NoSc
    /\ hd = NoHd
    /\ fn = [op |-> "prefix", called |-> FALSE]

\* one call of List with a unit type and no limit
ListByType ==
    \E T \in PrefixTypes :
        LET input == ListInput(Acct1, OptStr(T), Absent, NoToken)
        IN  /\ fn' = [op |-> "prefix", called |-> TRUE, input |-> input,
                      out |-> List(store, input)]
            /\ UNCHANGED <<store, now, pc, local, last, deletedKeys, pg, codec, sc, hd>>

NextPrefix == ListByType

SpecPrefix == InitPrefix /\ [][NextPrefix]_vars

ItemWellKeyed(i) ==
    /\ i["pk"].V = FromMap(NewDynamicUnit(EmptyStr), UnmarshalMap(i)).AccountID
    /\ i["sk"].V = SprintfHash(i["unitType"].V, i["id"].V)

\* Claim C29: in every reachable state every item's partition key equals the
\* record's accountId and its sort key equals unitType#id built from its own
\* unitType and id attributes; no Update or Delete writes an item under a key
\* different from the key of the record it was asked to change, and the id,
\* accountId and unitType of a stored record never change.
KeysNeverMove ==
    /\ [](\A i \in store : ItemWellKeyed(i))
    /\ [][\A j \in store' \ store :
            last'.op \in {"Update", "Delete"}
            => /\ KeyOf(j) = <<last'.acct, last'.sk>>
               /\ \E i \in store :
                     /\ KeyOf(i) = KeyOf(j)
                     /\ i["id"] = j["id"]
                     /\ i["pk"] = j["pk"]
                     /\ i["unitType"] = j["unitType"]]_vars

\* a Delete rewrote the record it was asked to change, under the same key
KeyKeptByDelete ==
    /\ last.op = "Delete" /\ last.put
    /\ \E i \in store :
          /\ KeyOf(i) = <<last.acct, SprintfHash(last.ut, last.id)>>
          /\ i["id"].V = last.id /\ i["unitType"].V = last.ut
          /\ ~NotDeletedFilter(i)
          /\ ItemWellKeyed(i)

(***************************************************************************)
(* The repository variant keyed by account and location: pk is the account,*)
(* sk the location, and the index "id-index" is keyed by id alone.         *)
(***************************************************************************)
LocationIDs == {UUID(1), UUID(2)}

\* a location that uuid.Parse rejects
BadLocation == <<"main-yard">>

LocIds == {UUID(n) : n \in 1..(NumIds + 1)}

\* unit.ValidateLocationID(): the error, or NoErr
ValidateLocationID(u) ==
    IF u.LocationID = EmptyStr THEN "locationId is required"
    ELSE IF ~IsUUID(u.LocationID) THEN "locationId must be a valid UUID"
    ELSE NoErr

LocUnit(acct, loc, id) ==
    [isNil |-> FALSE, ID |-> id, AccountID |-> acct, LocationID |-> loc,
     CreatedAt |-> 0, UpdatedAt |-> 0, DeletedAt |-> 0]

NilLocUnit == [LocUnit(EmptyStr, EmptyStr, EmptyStr) EXCEPT !.isNil = TRUE]

\* attributevalue.MarshalMap(unit): the struct tags id, pk, sk and the stamps
LocItemOf(u) ==
    [pk |-> u.AccountID, sk |-> u.LocationID, id |-> u.ID,
     createdAt |-> u.CreatedAt, updatedAt |-> u.UpdatedAt, deletedAt |-> u.DeletedAt]

\* attributevalue.UnmarshalMap(item, &unit)
LocUnitOf(i) ==
    [isNil |-> FALSE, ID |-> i.id, AccountID |-> i.pk, LocationID |-> i.sk,
     CreatedAt |-> i.createdAt, UpdatedAt |-> i.updatedAt, DeletedAt |-> i.deletedAt]

\* GetByKey of this variant: nil for an absent or soft-deleted item
LocGetByKey(tbl, accountID, locationID) ==
    IF accountID = EmptyStr THEN [unit |-> NilLocUnit, err |-> ErrAccountRequired]
    ELSE IF locationID = EmptyStr
         THEN [unit |-> NilLocUnit, err |-> "locationID is required"]
    ELSE LET found == {i \in tbl : i.pk = accountID /\ i.sk = locationID}
         IN  IF found = {} THEN [unit |-> NilLocUnit, err |-> NoErr]
             ELSE LET u == LocUnitOf(CHOOSE i \in found : TRUE)
                  IN  IF IsDeleted(u) THEN [unit |-> NilLocUnit, err |-> NoErr]
                      ELSE [unit |-> u, err |-> NoErr]

\* the items of the index partition id = unitID
IndexItems(tbl, unitID) == {i \in tbl : i.id = unitID}

\* "pk = :accountId AND (attribute_not_exists(deletedAt) OR deletedAt = :zero)"
IndexFilter(i, accountID) == i.pk = accountID /\ i.deletedAt = 0

\* what GetByID may return: the query evaluates one item of the index
\* partition (Limit 1), whichever the index yields first, and then filters it
GetByIDOutcomes(tbl, accountID, unitID) ==
    IF accountID = EmptyStr THEN {[unit |-> NilLocUnit, err |-> ErrAccountRequired]}
    ELSE IF unitID = EmptyStr THEN {[unit |-> NilLocUnit, err |-> ErrUnitIDRequired]}
    ELSE IF IndexItems(tbl, unitID) = {} THEN {[unit |-> NilLocUnit, err |-> NoErr]}
    ELSE {[unit |-> IF IndexFilter(e, accountID) THEN LocUnitOf(e) ELSE NilLocUnit,
           err |-> NoErr] : e \in IndexItems(tbl, unitID)}

\* the records Create of this variant is called with
LocUnitInputs ==
    {NilLocUnit}
        \cup {LocUnit(acct, loc, id) :
                acct \in Accounts, loc \in LocationIDs \cup {EmptyStr, BadLocation},
                id \in LocIds \cup {EmptyStr}}

InitLocation ==
    /\ store = {}
    /\ now = 1
    /\ pc = [p \in Procs |-> "idle"]
    /\ local = [p \in Procs |-> NoLocal]
    /\ last = NoResp
    /\ deletedKeys = {}
    /\ pg = NoPg
    /\ codec = NoCodec
    /\ sc = NoSc
    /\ hd = NoHd
    /\ fn = NoFn

\* one call of Create of this variant
LocCreate ==
    \E unit \in LocUnitInputs :
      \E id \in IF unit.ID = EmptyStr THEN LocIds ELSE {unit.ID} :
        LET argErr == IF unit.isNil THEN ErrNilUnit ELSE ValidateLocationID(unit)
            u == SetTimestamps([unit EXCEPT !.ID = id], now)
            item == LocItemOf(u)
            exists == \E i \in store : i.pk = item.pk /\ i.sk = item.sk
            err == IF argErr # NoErr THEN argErr
                   ELSE IF exists THEN ErrAlreadyExists ELSE NoErr
        IN  /\ store' = IF err = NoErr THEN FixedPutItem(store, item) ELSE store
            /\ last' = [NoResp EXCEPT !.op = "LocCreate",
                            !.acct = unit.AccountID, !.sk = unit.LocationID,
                            !.unit = IF argErr = NoErr THEN u ELSE unit,
                            !.err = err, !.put = (err = NoErr)]
            /\ UNCHANGED <<now, pc, local, deletedKeys, pg, codec, sc, hd, fn>>

\* one call of Delete of this variant
LocDelete ==
    \E accountID \in Accounts, locationID \in LocationIDs :
        LET got == LocGetByKey(store, accountID, locationID)
            u == SetTimestamps(MarkDeleted(got.unit, now), now)
            err == IF got.unit.isNil THEN ErrNotFound ELSE NoErr
        IN  /\ store' = IF err = NoErr THEN FixedPutItem(store, LocItemOf(u)) ELSE store
            /\ last' = [NoResp EXCEPT !.op = "LocDelete", !.acct = accountID,
                            !.sk = locationID, !.err = err, !.put = (err = NoErr)]
            /\ UNCHANGED <<now, pc, local, deletedKeys, pg, codec, sc, hd, fn>>

\* one call of GetByID of this variant
LocGetByID ==
    \E accountID \in Accounts \cup {EmptyStr}, unitID \in LocIds \cup {EmptyStr} :
      \E r \in GetByIDOutcomes(store, accountID, unitID) :
        /\ last' = [NoResp EXCEPT !.op = "LocGetByID", !.acct = accountID,
                        !.id = unitID, !.unit = r.unit, !.err = r.err]
        /\ UNCHANGED <<store, now, pc, local, deletedKeys, pg, codec, sc, hd, fn>>

NextLocation == LocCreate \/ LocDelete \/ LocGetByID

SpecLocation == InitLocation /\ [][NextLocation]_vars

\* Claim C30: in the location-keyed variant GetByID(accountId, unitID) returns
\* a record whenever the store holds a non-deleted item with that id in that
\* account, even when other items with the same id exist in other accounts or
\* are soft-deleted, and returns not-found only when no such item exists.
GetByIDFindsLive ==
    (last.op = "LocGetByID" /\ last.err = NoErr)
    => LET live == {i \in store : i.id = last.id /\ i.pk = last.acct /\ i.deletedAt = 0}
       IN  /\ live # {} => (~last.unit.isNil /\ LocItemOf(last.unit) \in live)
           /\ live = {} => last.unit.isNil


====
